---- MODULE Spec2Model ----
(***************************************************************************)
(* Model of the runner of edgeimpulse/linux-sdk-go (src/runner.go): the    *)
(* construction of a RunnerProcess, the request/response transaction on    *)
(* the unix socket to the model process, Classify and Close.               *)
(*                                                                         *)
(* The transport is modelled as two ordered streams.  Requests are written *)
(* by one conn.Write each.  The model process answers each request with a  *)
(* JSON document followed by one zero byte; a document is modelled by two  *)
(* symbols (its head, carrying the decoded fields, and its closing brace), *)
(* so that one conn.Read may end inside a document, after it, or after the *)
(* zero byte.                                                              *)
(***************************************************************************)
EXTENDS Integers, Sequences, FiniteSets, TLC

\* ------------------------------------------------------------------ bounds

\* Highest transaction id a run uses: the hello plus MaxID - 1 Classify calls.
MaxID == 3

\* Number of calls of Close made by the owner of a ready runner.
MaxCloses == 2

\* --------------------------------------------------------------- constants

\* The value of i at which the dial loop gives up (runner.go:293).
DialGiveUp == 1000

Callers == {"c1", "c2"}
Threads == Callers \cup {"new"}

\* Error strings the model process reports with success=false.
ErrorStrings == {"boom", "oops"}

VARIABLES
    ctor,      \* position of NewRunnerProcess
    rerr,      \* named result rerr of NewRunnerProcess ("" is nil)
    runner,    \* what NewRunnerProcess returned: "none" (not yet), "nil", "r"
    workDir,   \* r.opts.WorkDir: "" (not given), "caller", "shmtmp", "tmp"
    tempDir,   \* r.tempDir: "", "shmtmp" (made in /dev/shm) or "tmp"
    dirs,      \* the directories that exist on disk
    optsTraceDir, \* r.opts.TraceDir: "" (no tracing), "dir", "missing" (no such directory)
    traceFiles, \* the trace files created: <<id, "request" or "response",
               \* "written" or "encode" (the data could not be written)>>
    cancel,    \* r.cancel # nil
    proc,      \* the model process: "none", "running", "cancelled", "exited"
    sock,      \* the socket file runner.sock: "absent" or "bound"
    i,         \* the loop variable of the dial loop (0 outside the loop)
    conn,      \* r.conn: "nil", "open", "closed"
    mutex,     \* r.mutex: "free" or the thread that holds it
    lastID,    \* r.lastID
    pc,        \* per thread: position in Classify/transact
    tx,        \* per thread: the locals of transact
    ret,       \* per thread: the value transact returned
    log,       \* the transactions that returned, in order
    c2s,       \* requests written to the socket that the model process has
               \* not read; once it is gone, the reset pending on the socket
    srvOut,    \* symbols of the current answer the model process has not written
    s2c,       \* symbols written by the model process, not yet read by the runner
    answered,  \* per request id: how the model process answered it
    closePc,   \* position of the owner's Close call: "idle", "called", "locked"
    closes,    \* number of Close calls that returned (the deferred one included)
    closeRet,  \* outcome of the last Close call: "none", "nil", "panic"
    helloResp, \* hello: the decoded runnerHelloResponse
    modelParams, \* r.modelParams (zero value before the hello was processed)
    audioNew,  \* audio.NewClassifier: "none" (not called), "error", "ok"
    imageNew,  \* image.NewClassifier: "none" (not called), "error", "ok"
    reader,    \* recorder.Reader() of the audio recorder has been called
    imageEvents, \* recorder.Events() of the image recorder has been called
    imageLoop, \* the goroutine of the image classifier has been started
    intervalSampleCount, \* audio: samples read per interval
    modelSamples, \* audio: the sliding window (a sequence of InputFeaturesCount values)
    modelSampleCount, \* audio: number of valid samples in the window
    audioPos,  \* audio: number of bytes read from the recorder's stream
    capture,   \* audio capture goroutine: "none", "read", "handoff", "errsend", "done"
    worker,    \* audio classify goroutine: "none", "top", "recv", "classify", "emit", "done"
    s,         \* audio classify goroutine: its local s (and the outcome of Classify)
    samplesClosed, \* audio: close(samples) has run
    events,    \* audio: the buffer of the channel c.Events
    eventsClosed, \* audio: c.Events has been closed
    sent,      \* audio: the kinds of the events sent on c.Events, in order
    dropped,   \* audio: number of snapshots dropped by the select
    audioClosed, \* audio: Classifier.Close has returned
    traceDir,  \* image: opts.TraceDir of the classifier ("" or "dir")
    loop,      \* image classifier goroutine: "none", "top", "select", "classify", "emit", "done"
    iev,       \* image: the image.Event the loop works on
    data,      \* image: the features made of iev.Image
    seq,       \* image: the local seq of NewClassifier
    pngs,      \* image: the sequence numbers of the trace files written, in order
    out,       \* image: the ClassifyEvent the loop is about to send
    stop,      \* image: number of values buffered in c.stop
    imageCloses, \* image: number of calls of Classifier.Close that returned
    imgEvents, \* image: the buffer of the channel c.Events
    imgSent,   \* image: the events sent on c.Events, in order
    received,  \* image: id and error of the image events the loop received, in order
    classified, \* image: the ids of the image events whose features went to Classify
    producer,  \* image recorder goroutine: "watch", "errsend"; "closed" when
               \* the recorder has closed its Events channel
    made,      \* image recorder: number of events it has made
    maf,       \* the MAF: made is "none", "nil" (NewMAF failed), "zero" (&MAF{}), "new"; state is m.state
    mafRet,    \* what the last call of NewMAF or Update returned
    mafHist,   \* per label, the values of the Update calls that succeeded, in order
    mafUpdates, \* number of calls of Update
    mafFailed, \* an Update call on this filter has returned an error
    soxText,   \* the output of sox given to parseSoxDevices
    soxDevices, \* the devices parseSoxDevices returned
    soxPc      \* parseSoxDevices: "call", "done"

ctorVars == <<ctor, rerr, runner, workDir, tempDir, dirs, cancel, i>>
txVars == <<pc, tx, ret, log, lastID>>
srvVars == <<proc, sock, c2s, srvOut, s2c, answered>>
closeVars == <<closePc, closes, closeRet>>
traceVars == <<optsTraceDir, traceFiles>>
runnerVars == <<ctorVars, txVars, srvVars, closeVars, conn, mutex, traceVars>>
helloVars == <<helloResp, modelParams>>
newVars == <<audioNew, imageNew, reader, imageEvents, imageLoop>>
windowVars == <<intervalSampleCount, modelSamples, modelSampleCount, audioPos>>
chanVars == <<samplesClosed, events, eventsClosed, sent, dropped>>
loopVars == <<loop, iev, data, seq, pngs, out>>
imageChanVars == <<stop, imageCloses, imgEvents, imgSent, received, classified>>
imageVars == <<traceDir, loopVars, imageChanVars, producer, made>>
pipeVars == <<helloVars, newVars, windowVars, chanVars, capture, worker, s,
              audioClosed, imageVars>>
mafVars == <<maf, mafRet, mafHist, mafUpdates, mafFailed>>
soxVars == <<soxText, soxDevices, soxPc>>
toolVars == <<mafVars, soxVars>>
vars == <<runnerVars, pipeVars, toolVars>>

IDs == 1..(MaxID + 1)

\* --------------------------------------------------------------- the wire

\* The symbols of an answer to request id: a JSON document and the zero byte.
\* Field re names the request the symbol answers; the runner never reads it
\* from "c", "z" or "x" symbols.
JSONHead(id, success, error) ==
    [k |-> "o", re |-> id, success |-> success, error |-> error]
Sym(kind, id) == [k |-> kind, re |-> id, success |-> FALSE, error |-> ""]

AnswerOK(id) == <<JSONHead(id, TRUE, ""), Sym("c", id), Sym("z", id)>>
AnswerFail(id, e) == <<JSONHead(id, FALSE, e), Sym("c", id), Sym("z", id)>>
\* An answer that is not JSON, followed by the zero byte all the same.
AnswerBad(id) == <<Sym("x", id), Sym("z", id)>>

\* The model process is gone: its end of the connection is closed.
PeerClosed == proc \in {"cancelled", "exited"}

NoTx == [id |-> 0, phase |-> "begin", val |-> Sym("x", 0), buf |-> <<>>,
         rd |-> <<>>, wrote |-> FALSE]
\* id: the request's id; phase, val, buf: the decoder; rd: what the transaction has
\* read from the connection; wrote: conn.Write was called.
NoRet == [kind |-> "none", error |-> ""]

\* ------------------------------------------------------------ json.Decoder

\* dec.readValue over the bytes in the decoder's buffer: scan from `phase`
\* ("begin": no value started, "open": inside the document).  The result is
\* "done" right after the closing brace, without looking at the next byte,
\* "more" when the buffer ends first, "error" on a byte that cannot follow.
RECURSIVE Scan(_, _, _)
Scan(phase, val, buf) ==
    IF buf = <<>> THEN [st |-> "more", phase |-> phase, val |-> val, rest |-> <<>>]
    ELSE IF phase = "begin"
         THEN IF Head(buf).k = "o"
              THEN Scan("open", Head(buf), Tail(buf))
              ELSE [st |-> "error", phase |-> phase, val |-> val, rest |-> Tail(buf)]
         ELSE IF Head(buf).k = "c"
              THEN [st |-> "done", phase |-> "begin", val |-> val, rest |-> Tail(buf)]
              ELSE [st |-> "error", phase |-> phase, val |-> val, rest |-> Tail(buf)]

\* ------------------------------------------------------------------ Close

\* Variant of CloseCallsConnClose: Close leaves the connection open.
CloseLeavesConn == FALSE

\* The three guarded calls of Close (runner.go:395-403).
CloseCallsCancel == cancel
CloseCallsConnClose == conn # "nil"
CloseRemovesTempDir == tempDir # ""

\* os.RemoveAll(r.tempDir) (runner.go:402): nil when the directory and what
\* is in it are gone (or were not there), an error when something could not
\* be removed, as when the model process, which cancel() kills without
\* waiting for it, makes a file in the directory meanwhile.
RemoveAllResults ==
    IF CloseRemovesTempDir /\ tempDir \in dirs THEN {"nil", "error"} ELSE {"nil"}

\* The directories gone after Close: r.tempDir, which is set only for a
\* directory the constructor made itself, when os.RemoveAll returned nil;
\* Close does not look at what it returned (runner.go:401-403).
RemovedByClose(res) ==
    IF CloseRemovesTempDir /\ res = "nil" THEN {tempDir} ELSE {}

\* Calling a nil func or a method of a nil interface panics.
ClosePanics == (CloseCallsCancel /\ ~cancel) \/ (CloseCallsConnClose /\ conn = "nil")

\* The body of Close, after the lock: cancel the process' context, close the
\* connection, call os.RemoveAll on the private temp dir.  Close returns nil.
\* The socket file lies in the working directory (runner.go:276-283), so it
\* goes with a private temp dir that is removed; when os.RemoveAll fails it
\* has removed some of what is in the directory, the socket file or not.
CloseBody ==
    /\ closeRet' = IF ClosePanics THEN "panic" ELSE "nil"
    /\ proc' = IF CloseCallsCancel /\ proc = "running" THEN "cancelled" ELSE proc
    /\ srvOut' = IF CloseCallsCancel THEN <<>> ELSE srvOut
    /\ conn' = IF CloseCallsConnClose /\ conn # "nil" THEN "closed" ELSE conn
    /\ \E res \in RemoveAllResults :
         /\ dirs' = dirs \ RemovedByClose(res)
         /\ sock' \in IF ~CloseRemovesTempDir \/ tempDir \notin dirs THEN {sock}
                       ELSE IF res = "nil" THEN {"absent"}
                       ELSE {sock, "absent"}
    /\ closes' = closes + 1

\* -------------------------------------------------------- model parameters

\* The zero values of runnerHelloResponse.ModelParameters as decoded and of
\* r.modelParams (runner.go:106-114).  Frequency is in Hz.
NoHello == [sensor |-> 0, model_type |-> "", SensorType |-> "",
            frequency |-> 0, input_features_count |-> 0,
            image_input_width |-> 0, image_input_height |-> 0,
            image_channel_count |-> 0]
NoParams == [Sensor |-> 0, ModelType |-> "", SensorType |-> "",
             Frequency |-> 0, InputFeaturesCount |-> 0,
             ImageInputWidth |-> 0, ImageInputHeight |-> 0,
             ImageChannelCount |-> 0]

\* No image event, no ClassifyEvent.
NoEvent == [id |-> 0, err |-> "", img |-> <<>>]
NoOut == [id |-> 0, kind |-> "", err |-> ""]

\* The image classifier and the recorder's goroutine do not exist.
ImageIdle ==
    /\ traceDir = ""
    /\ loop = "none"
    /\ iev = NoEvent
    /\ data = <<>>
    /\ seq = 0
    /\ pngs = <<>>
    /\ out = NoOut
    /\ stop = 0
    /\ imageCloses = 0
    /\ imgEvents = <<>>
    /\ imgSent = <<>>
    /\ received = <<>>
    /\ classified = <<>>
    /\ producer = "watch"
    /\ made = 0

\* The pipelines do not exist: the state of the variables of the audio and
\* image classifiers while only the runner is looked at.
\* A map without keys, and a nil map.
EmptyMap == <<>>

\* No filter is made and no call of NewMAF or Update has returned.
NoMaf == [made |-> "none", state |-> EmptyMap]
NoMafRet == [op |-> "", size |-> 0, labels |-> <<>>, cls |-> EmptyMap,
             kind |-> "none", err |-> "", r |-> EmptyMap]
MafIdle ==
    /\ maf = NoMaf
    /\ mafRet = NoMafRet
    /\ mafHist = <<>>
    /\ mafUpdates = 0
    /\ mafFailed = FALSE

\* parseSoxDevices is not called.
SoxIdle ==
    /\ soxText = <<>>
    /\ soxDevices = <<>>
    /\ soxPc = "idle"

ToolsIdle == MafIdle /\ SoxIdle

PipeIdle ==
    /\ helloResp = NoHello
    /\ modelParams = NoParams
    /\ audioNew = "none"
    /\ imageNew = "none"
    /\ reader = FALSE
    /\ imageEvents = FALSE
    /\ imageLoop = FALSE
    /\ intervalSampleCount = 0
    /\ modelSamples = <<>>
    /\ modelSampleCount = 0
    /\ audioPos = 0
    /\ capture = "none"
    /\ worker = "none"
    /\ s = [samples |-> <<>>, err |-> ""]
    /\ samplesClosed = FALSE
    /\ events = <<>>
    /\ eventsClosed = FALSE
    /\ sent = <<>>
    /\ dropped = 0
    /\ audioClosed = FALSE
    /\ ImageIdle

\* Variant of SensorTypeOf: the sensor type decoded from the response is kept
\* when the code is not a known one.
SensorTypeKept(resp) ==
    CASE resp.sensor = 1 -> "microphone"
      [] resp.sensor = 2 -> "accelerometer"
      [] resp.sensor = 3 -> "camera"
      [] OTHER -> IF resp.SensorType = "" THEN "unknown" ELSE resp.SensorType

\* The switch on mp.Sensor (runner.go:308-317).
SensorTypeOf(resp) ==
    CASE resp.sensor = 1 -> "microphone"
      [] resp.sensor = 2 -> "accelerometer"
      [] resp.sensor = 3 -> "camera"
      [] OTHER -> "unknown"

\* The default of mp.ModelType (runner.go:305-307).
ModelTypeOf(resp) ==
    IF resp.model_type = "" THEN "classification" ELSE resp.model_type

\* mp as stored in r.modelParams (runner.go:304-318).
HelloParams(resp) ==
    [Sensor |-> resp.sensor,
     ModelType |-> ModelTypeOf(resp),
     SensorType |-> SensorTypeOf(resp),
     Frequency |-> resp.frequency,
     InputFeaturesCount |-> resp.input_features_count,
     ImageInputWidth |-> resp.image_input_width,
     ImageInputHeight |-> resp.image_input_height,
     ImageChannelCount |-> resp.image_channel_count]

\* ------------------------------------------------------- NewRunnerProcess

Init ==
    /\ ctor = "abs"
    /\ rerr = ""
    /\ runner = "none"
    /\ workDir \in {"", "caller"}
    /\ tempDir = ""
    /\ dirs = IF workDir = "caller" THEN {"caller"} ELSE {}
    /\ cancel = FALSE
    /\ proc = "none"
    /\ sock = "absent"
    /\ i = 0
    /\ conn = "nil"
    /\ mutex = "free"
    /\ lastID = 0
    /\ pc = [t \in Threads |-> "idle"]
    /\ tx = [t \in Threads |-> NoTx]
    /\ ret = [t \in Threads |-> NoRet]
    /\ log = <<>>
    /\ c2s = <<>>
    /\ srvOut = <<>>
    /\ s2c = <<>>
    /\ answered = [n \in IDs |-> "none"]
    /\ closePc = "idle"
    /\ closes = 0
    /\ closeRet = "none"
    /\ optsTraceDir = ""
    /\ traceFiles = {}
    /\ PipeIdle
    /\ ToolsIdle

\* A failing return: rerr is set and the deferred function is to run.
ReturnError(e) ==
    /\ rerr' = e
    /\ ctor' = "deferred"

\* filepath.Abs(modelPath); on failure nothing was allocated (runner.go:248-256).
CtorAbs ==
    /\ ctor = "abs"
    /\ \/ /\ ctor' = "tempdir"
          /\ UNCHANGED <<rerr, runner>>
       \/ /\ ctor' = "failed"
          /\ rerr' = "abs"
          /\ runner' = "nil"
    /\ UNCHANGED <<workDir, tempDir, dirs, cancel, i, txVars, srvVars,
                   closeVars, conn, mutex>>
    /\ UNCHANGED pipeVars
    /\ UNCHANGED traceVars
    /\ UNCHANGED toolVars

\* TempDir() (maf_test.go:138-150): a fresh directory in /dev/shm when
\* os.Stat finds a directory there and ioutil.TempDir can make one in it;
\* otherwise what ioutil.TempDir makes of the default temp directory of the
\* OS, a fresh directory or an error.
TempDir(shm, inShm, inDefault) ==
    IF shm = "dir" /\ inShm = "made" THEN "shmtmp"
    ELSE IF inDefault = "made" THEN "tmp"
    ELSE "error"

\* What TempDir() returns when /dev/shm is a directory, something else or
\* not there, and each call of ioutil.TempDir makes a directory or fails.
TempDirResults ==
    {TempDir(shm, a, b) : shm \in {"dir", "file", "absent"},
                          a \in {"made", "error"}, b \in {"made", "error"}}

\* The working directory (runner.go:265-272).
CtorTempDir ==
    /\ ctor = "tempdir"
    /\ IF workDir = ""
       THEN \E d \in TempDirResults :
              IF d = "error"
              THEN /\ ReturnError("making temp dir")
                   /\ UNCHANGED <<workDir, tempDir, dirs>>
              ELSE /\ workDir' = d
                   /\ tempDir' = d
                   /\ dirs' = dirs \cup {d}
                   /\ ctor' = "start"
                   /\ UNCHANGED rerr
       ELSE /\ ctor' = "start"
            /\ UNCHANGED <<rerr, workDir, tempDir, dirs>>
    /\ UNCHANGED <<runner, cancel, i, txVars, srvVars, closeVars, conn, mutex>>
    /\ UNCHANGED pipeVars
    /\ UNCHANGED traceVars
    /\ UNCHANGED toolVars

\* context.WithCancel and cmd.Start (runner.go:274-281).
CtorStart ==
    /\ ctor = "start"
    /\ cancel' = TRUE
    /\ \/ /\ proc' = "running"
          /\ ctor' = "dial"
          /\ UNCHANGED rerr
       \/ /\ ReturnError("starting model process")
          /\ UNCHANGED proc
    /\ UNCHANGED <<runner, workDir, tempDir, dirs, i, txVars, sock, c2s,
                   srvOut, s2c, answered, closeVars, conn, mutex>>
    /\ UNCHANGED pipeVars
    /\ UNCHANGED traceVars
    /\ UNCHANGED toolVars

\* net.Dial("unix", sockPath): nil on a connection, ENOENT while the socket
\* file does not exist, another error when nothing listens on it.
DialResult ==
    IF sock = "absent" THEN "ENOENT"
    ELSE IF proc = "running" THEN "nil" ELSE "ECONNREFUSED"

\* Variant of DialBudgetSpent: the budget test one iteration late.
DialBudgetSpentLate == i = DialGiveUp + 1

\* The test that ends the polling (runner.go:293).
DialBudgetSpent == i = DialGiveUp

\* One iteration of the dial loop (runner.go:284-297): one call of net.Dial,
\* the i+1-th of the loop.  The loop variable ends with the loop.
CtorDial ==
    /\ ctor = "dial"
    /\ IF DialResult = "nil"
       THEN /\ conn' = "open"
            /\ ctor' = "hello"
            /\ i' = 0
            /\ UNCHANGED rerr
       ELSE IF DialResult # "ENOENT"
       THEN /\ ReturnError("opening runner socket")
            /\ UNCHANGED <<conn, i>>
       ELSE IF DialBudgetSpent
       THEN /\ ReturnError("no socket from runner")
            /\ UNCHANGED <<conn, i>>
       ELSE /\ i' = i + 1
            /\ UNCHANGED <<conn, ctor, rerr>>
    /\ UNCHANGED <<runner, workDir, tempDir, dirs, cancel, txVars, srvVars,
                   closeVars, mutex>>
    /\ UNCHANGED pipeVars
    /\ UNCHANGED traceVars
    /\ UNCHANGED toolVars

\* Variant of NextID: the id is returned without being advanced.
NextIDStale == lastID

\* r.nextID() (runner.go:371-374).
NextID == lastID + 1

\* The hello request is built and transact is entered (runner.go:299-301).
CtorHello ==
    /\ ctor = "hello"
    /\ lastID' = NextID
    /\ tx' = [tx EXCEPT !["new"] = [NoTx EXCEPT !.id = NextID]]
    /\ pc' = [pc EXCEPT !["new"] = "send"]
    /\ ctor' = "transact"
    /\ UNCHANGED <<rerr, runner, workDir, tempDir, dirs, cancel, i, ret, log,
                   srvVars, closeVars, conn, mutex>>
    /\ UNCHANGED pipeVars
    /\ UNCHANGED traceVars
    /\ UNCHANGED toolVars

LogEntry(t) ==
    [id |-> tx[t].id, kind |-> ret[t].kind, error |-> ret[t].error,
     re |-> tx[t].val.re, rd |-> tx[t].rd, wrote |-> tx[t].wrote]

\* transact returned to NewRunnerProcess (runner.go:301-321): an error is
\* returned, or the model's parameters are taken from the hello response,
\* completed and stored in the runner, which is returned.
CtorHelloReturn ==
    /\ ctor = "transact"
    /\ pc["new"] = "ret"
    /\ log' = Append(log, LogEntry("new"))
    /\ pc' = [pc EXCEPT !["new"] = "idle"]
    /\ tx' = [tx EXCEPT !["new"] = NoTx]
    /\ ret' = [ret EXCEPT !["new"] = NoRet]
    /\ IF ret["new"].kind # "ok"
       THEN /\ ReturnError("hello to model")
            /\ UNCHANGED <<runner, modelParams>>
       ELSE /\ ctor' = "ready"
            /\ runner' = "r"
            /\ modelParams' = HelloParams(helloResp)
            /\ UNCHANGED rerr
    /\ UNCHANGED <<workDir, tempDir, dirs, cancel, i, lastID, srvVars,
                   closeVars, conn, mutex>>
    /\ UNCHANGED <<helloResp, newVars, windowVars, chanVars, capture, worker, s,
                   audioClosed, imageVars>>
    /\ UNCHANGED traceVars
    /\ UNCHANGED toolVars

\* The deferred function runs Close exactly when rerr is set (runner.go:259-263).
DeferredCloses == rerr # ""

\* The deferred function, and the return of nil and the error.
CtorDeferred ==
    /\ ctor = "deferred"
    /\ ctor' = "failed"
    /\ runner' = "nil"
    /\ i' = 0
    /\ IF DeferredCloses
       THEN CloseBody
       ELSE UNCHANGED <<closeRet, proc, srvOut, conn, dirs, sock, closes>>
    /\ UNCHANGED <<rerr, workDir, tempDir, cancel, txVars, c2s, s2c,
                   answered, closePc, mutex>>
    /\ UNCHANGED pipeVars
    /\ UNCHANGED traceVars
    /\ UNCHANGED toolVars

\* ---------------------------------------------------------------- transact

SetRet(t, kind, e) ==
    /\ ret' = [ret EXCEPT ![t] = [kind |-> kind, error |-> e]]
    /\ pc' = [pc EXCEPT ![t] = "ret"]

\* json.NewEncoder(r.conn).Encode(req): one conn.Write (runner.go:326-328).
\* It fails on a connection closed by Close and on one whose peer is gone.
\* Variant of WriteFails: a write to a connection whose peer is gone is not
\* noticed.
WriteFailsOnlyClosed == conn # "open"

WriteFails == conn # "open" \/ PeerClosed

\* What writeTrace meets in the trace dir of the runner (runner.go:358-366):
\* os.Create fails in a directory that does not exist ("create"); in one
\* that has no room left the file is created and Encode fails ("encode");
\* otherwise the data is written.
TraceOutcome ==
    IF optsTraceDir = "missing" THEN "create"
    ELSE IF optsTraceDir = "full" THEN "encode"
    ELSE "written"

\* Variant of AfterTrace: a trace write that fails ends transact.
AfterTraceFatal(at, w) ==
    IF w # "written" THEN "ret"
    ELSE IF at = "tracereq" THEN "decode" ELSE "drain"

\* Where transact goes on after r.writeTrace(...), which has no result
\* (runner.go:330-334, 339-342): the read of the answer after the trace of
\* the request, the drain after the trace of the answer, whatever the write
\* met.
AfterTrace(at, w) == IF at = "tracereq" THEN "decode" ELSE "drain"

\* The write of the request (runner.go:325-330).  Without a trace dir
\* writeTrace returns at once (runner.go:354-356) and transact is at the
\* read of the answer.
TxSend(t) ==
    /\ pc[t] = "send"
    /\ IF WriteFails
       THEN /\ SetRet(t, "io", IF conn # "open" THEN "closed" ELSE "EPIPE")
            /\ tx' = [tx EXCEPT ![t].wrote = TRUE]
            /\ UNCHANGED c2s
       ELSE /\ c2s' = Append(c2s, tx[t].id)
            /\ tx' = [tx EXCEPT ![t].wrote = TRUE]
            /\ pc' = [pc EXCEPT ![t] = IF optsTraceDir = ""
                                       THEN AfterTrace("tracereq", "none")
                                       ELSE "tracereq"]
            /\ UNCHANGED ret
    /\ UNCHANGED <<ctorVars, log, lastID, proc, sock, srvOut, s2c, answered,
                   closeVars, conn, mutex>>
    /\ UNCHANGED pipeVars
    /\ UNCHANGED traceVars
    /\ UNCHANGED toolVars

\* r.writeTrace(".../runner-<id>-<part>.json", data) with a trace dir
\* (runner.go:353-369): the file is there once os.Create succeeded, with the
\* data or without; a failure is logged.  transact goes on.
TxTrace(t) ==
    /\ pc[t] \in {"tracereq", "traceresp"}
    /\ traceFiles' =
           IF TraceOutcome = "create" THEN traceFiles
           ELSE traceFiles \cup
                {<<tx[t].id,
                   IF pc[t] = "tracereq" THEN "request" ELSE "response",
                   TraceOutcome>>}
    /\ pc' = [pc EXCEPT ![t] = AfterTrace(pc[t], TraceOutcome)]
    /\ UNCHANGED <<ctorVars, tx, ret, log, lastID, srvVars, closeVars, conn,
                   mutex>>
    /\ UNCHANGED pipeVars
    /\ UNCHANGED optsTraceDir
    /\ UNCHANGED toolVars

\* A conn.Read that returns an error: the read deadline of 5 seconds
\* (runner.go:332) has passed, the connection was closed by Close, or the
\* peer is gone and everything it wrote has been read.  A peer that went
\* without having read what was written to it has reset the connection: the
\* read reports that once ("connection reset by peer"), and the end of the
\* stream after that.
ReadErrors ==
    (IF conn = "open" THEN {"timeout"} ELSE {"closed"})
    \cup (IF conn = "open" /\ PeerClosed /\ s2c = <<>>
          THEN IF c2s # <<>> THEN {"ECONNRESET"} ELSE {"EOF"}
          ELSE {})

ErrorKind(e) == IF e = "timeout" THEN "timeout" ELSE "io"

\* dec.Decode(resp), one refill of the decoder's buffer at a time: a
\* conn.Read returns some of the bytes that have arrived, and the scan runs
\* over them (runner.go:334-337).
\* Once the answer is decoded it is traced (runner.go:339); without a trace
\* dir writeTrace returns at once and transact is at the drain.
TxDecodeRead(t) ==
    /\ pc[t] = "decode"
    /\ conn = "open"
    /\ \E n \in 1..Len(s2c) :
         LET chunk == SubSeq(s2c, 1, n)
             r == Scan(tx[t].phase, tx[t].val, chunk)
         IN /\ s2c' = SubSeq(s2c, n + 1, Len(s2c))
            /\ tx' = [tx EXCEPT ![t].phase = r.phase, ![t].val = r.val,
                                ![t].buf = r.rest, ![t].rd = tx[t].rd \o chunk]
            /\ IF r.st = "more" THEN UNCHANGED <<pc, ret>>
               ELSE IF r.st = "done"
               THEN /\ pc' = [pc EXCEPT ![t] = IF optsTraceDir = ""
                                               THEN AfterTrace("traceresp", "none")
                                               ELSE "traceresp"]
                    /\ UNCHANGED ret
               ELSE SetRet(t, "protocol", "invalid character")
    /\ UNCHANGED <<ctorVars, log, lastID, proc, sock, c2s, srvOut, answered,
                   closeVars, conn, mutex>>
    /\ UNCHANGED pipeVars
    /\ UNCHANGED traceVars
    /\ UNCHANGED toolVars

\* dec.Decode(resp) fails because the read fails (runner.go:335-337).  The
\* decoder reports the end of the stream inside a document as
\* io.ErrUnexpectedEOF.  A reported reset is no longer pending, and what the
\* peer had not read is gone with it.
TxDecodeFail(t) ==
    /\ pc[t] = "decode"
    /\ \E e \in ReadErrors :
         /\ SetRet(t, ErrorKind(e),
                   IF e = "EOF" /\ tx[t].phase = "open" THEN "unexpected EOF"
                   ELSE e)
         /\ c2s' = IF e = "ECONNRESET" THEN <<>> ELSE c2s
    /\ UNCHANGED <<ctorVars, tx, log, lastID, proc, sock, srvOut, s2c, answered,
                   closeVars, conn, mutex>>
    /\ UNCHANGED pipeVars
    /\ UNCHANGED traceVars
    /\ UNCHANGED toolVars

\* The test that decides on the explicit read of one byte (runner.go:343).
DrainReads(buf) == Len(buf) = 0

\* The value transact returns once the answer is decoded (runner.go:347-350).
Outcome(val) ==
    IF val.success THEN [kind |-> "ok", error |-> ""]
    ELSE [kind |-> "model", error |-> val.error]

\* The rest of transact after a decoded answer (runner.go:341-350): what the
\* decoder has buffered is dropped; if that is nothing, one byte is read from
\* the connection and the result of the read is ignored.
TxDrain(t) ==
    /\ pc[t] = "drain"
    /\ IF DrainReads(tx[t].buf)
       THEN \/ /\ conn = "open"
               /\ s2c # <<>>
               /\ s2c' = Tail(s2c)
               /\ tx' = [tx EXCEPT ![t].rd = Append(tx[t].rd, Head(s2c))]
               /\ UNCHANGED c2s
            \/ /\ \E e \in ReadErrors :
                    c2s' = IF e = "ECONNRESET" THEN <<>> ELSE c2s
               /\ UNCHANGED <<s2c, tx>>
       ELSE /\ tx' = [tx EXCEPT ![t].buf = <<>>]
            /\ UNCHANGED <<s2c, c2s>>
    /\ ret' = [ret EXCEPT ![t] = Outcome(tx[t].val)]
    /\ pc' = [pc EXCEPT ![t] = "ret"]
    /\ UNCHANGED <<ctorVars, log, lastID, proc, sock, srvOut, answered,
                   closeVars, conn, mutex>>
    /\ UNCHANGED pipeVars
    /\ UNCHANGED traceVars
    /\ UNCHANGED toolVars

\* ---------------------------------------------------------------- Classify

\* A caller that holds the runner calls Classify.
ClassifyCall(c) ==
    /\ runner = "r"
    /\ pc[c] = "idle"
    /\ lastID + Cardinality({d \in Callers : pc[d] = "lock"}) < MaxID
    /\ pc' = [pc EXCEPT ![c] = "lock"]
    /\ UNCHANGED <<ctorVars, tx, ret, log, lastID, srvVars, closeVars, conn, mutex>>
    /\ UNCHANGED pipeVars
    /\ UNCHANGED traceVars
    /\ UNCHANGED toolVars

\* Variant of ClassifyMayLock: a Lock that does not wait for the holder.
ClassifyLockNoWait == TRUE

\* r.mutex.Lock() returns when the mutex is free (runner.go:379).
ClassifyMayLock == mutex = "free"

\* Classify from the lock to the call of transact (runner.go:379-386).
ClassifyLock(c) ==
    /\ pc[c] = "lock"
    /\ ClassifyMayLock
    /\ mutex' = c
    /\ lastID' = NextID
    /\ tx' = [tx EXCEPT ![c] = [NoTx EXCEPT !.id = NextID]]
    /\ pc' = [pc EXCEPT ![c] = "send"]
    /\ UNCHANGED <<ctorVars, ret, log, srvVars, closeVars, conn>>
    /\ UNCHANGED pipeVars
    /\ UNCHANGED traceVars
    /\ UNCHANGED toolVars

\* The return of Classify and the deferred Unlock (runner.go:380, 387).
ClassifyReturn(c) ==
    /\ pc[c] = "ret"
    /\ log' = Append(log, LogEntry(c))
    /\ mutex' = "free"
    /\ pc' = [pc EXCEPT ![c] = "idle"]
    /\ tx' = [tx EXCEPT ![c] = NoTx]
    /\ ret' = [ret EXCEPT ![c] = NoRet]
    /\ UNCHANGED <<ctorVars, lastID, srvVars, closeVars, conn>>
    /\ UNCHANGED pipeVars
    /\ UNCHANGED traceVars
    /\ UNCHANGED toolVars

\* ------------------------------------------------------------------- Close

\* The owner of the runner calls Close.
CloseCall ==
    /\ runner = "r"
    /\ closePc = "idle"
    /\ closes < MaxCloses
    /\ closePc' = "called"
    /\ UNCHANGED <<ctorVars, txVars, srvVars, closes, closeRet, conn, mutex>>
    /\ UNCHANGED pipeVars
    /\ UNCHANGED traceVars
    /\ UNCHANGED toolVars

\* Variant of CloseMayLock: Close does not wait for the mutex.
CloseLockNoWait == TRUE

\* r.mutex.Lock() returns when the mutex is free (runner.go:392).
CloseMayLock == mutex = "free"

CloseLock ==
    /\ closePc = "called"
    /\ CloseMayLock
    /\ mutex' = "close"
    /\ closePc' = "locked"
    /\ UNCHANGED <<ctorVars, txVars, srvVars, closes, closeRet, conn>>
    /\ UNCHANGED pipeVars
    /\ UNCHANGED traceVars
    /\ UNCHANGED toolVars

\* The body of Close, its return and the deferred Unlock (runner.go:393-404).
CloseRun ==
    /\ closePc = "locked"
    /\ CloseBody
    /\ mutex' = "free"
    /\ closePc' = "idle"
    /\ UNCHANGED <<ctor, rerr, runner, workDir, tempDir, cancel, i, txVars,
                   c2s, s2c, answered>>
    /\ UNCHANGED pipeVars
    /\ UNCHANGED traceVars
    /\ UNCHANGED toolVars

\* ------------------------------------------------------ the model process

\* The model process creates runner.sock and listens on it.
ServerBind ==
    /\ proc = "running"
    /\ sock = "absent"
    /\ sock' = "bound"
    /\ UNCHANGED <<ctorVars, txVars, proc, c2s, srvOut, s2c, answered, closeVars,
                   conn, mutex>>
    /\ UNCHANGED pipeVars
    /\ UNCHANGED traceVars
    /\ UNCHANGED toolVars

\* The model process exits on its own; what it had not written is lost.
ServerExit ==
    /\ proc = "running"
    /\ proc' = "exited"
    /\ srvOut' = <<>>
    /\ UNCHANGED <<ctorVars, txVars, sock, c2s, s2c, answered, closeVars, conn, mutex>>
    /\ UNCHANGED pipeVars
    /\ UNCHANGED traceVars
    /\ UNCHANGED toolVars

\* What the model process may answer to request id: a classification, a
\* failure, or bytes that are not JSON.  The error of a failure is one of
\* ErrorStrings, another one than for the requests before and after.
Answers(id) ==
    {AnswerOK(id), AnswerBad(id),
     AnswerFail(id, IF id % 2 = 0 THEN "boom" ELSE "oops")}

AnswerKind(a) ==
    IF a[1].k = "x" THEN "bad" ELSE IF a[1].success THEN "ok" ELSE "fail"

\* The model process takes the oldest request and prepares its answer.
ServerAnswer ==
    /\ proc = "running"
    /\ conn = "open"
    /\ c2s # <<>>
    /\ srvOut = <<>>
    /\ \E a \in Answers(Head(c2s)) :
         /\ srvOut' = a
         /\ answered' = [answered EXCEPT ![Head(c2s)] = AnswerKind(a)]
    /\ c2s' = Tail(c2s)
    /\ UNCHANGED <<ctorVars, txVars, proc, sock, s2c, closeVars, conn, mutex>>
    /\ UNCHANGED pipeVars
    /\ UNCHANGED traceVars
    /\ UNCHANGED toolVars

\* The model process writes the next byte of its answer.
ServerWrite ==
    /\ proc = "running"
    /\ conn = "open"
    /\ srvOut # <<>>
    /\ s2c' = Append(s2c, Head(srvOut))
    /\ srvOut' = Tail(srvOut)
    /\ UNCHANGED <<ctorVars, txVars, proc, sock, c2s, answered, closeVars, conn, mutex>>
    /\ UNCHANGED pipeVars
    /\ UNCHANGED traceVars
    /\ UNCHANGED toolVars

\* ------------------------------------------------------------ specification

Next ==
    \/ CtorAbs
    \/ CtorTempDir
    \/ CtorStart
    \/ CtorDial
    \/ CtorHello
    \/ CtorHelloReturn
    \/ CtorDeferred
    \/ \E t \in Threads : TxSend(t)
    \/ \E t \in Threads : TxDecodeRead(t)
    \/ \E t \in Threads : TxDecodeFail(t)
    \/ \E t \in Threads : TxDrain(t)
    \/ \E c \in Callers : ClassifyCall(c)
    \/ \E c \in Callers : ClassifyLock(c)
    \/ \E c \in Callers : ClassifyReturn(c)
    \/ CloseCall
    \/ CloseLock
    \/ CloseRun
    \/ ServerBind
    \/ ServerExit
    \/ ServerAnswer
    \/ ServerWrite

Spec == Init /\ [][Next]_vars


\* --------------------------------------------------------------- tracing

\* The trace dirs a runner is made with: none, one that exists, one that
\* does not exist, in which every trace file fails to be created, and one
\* without room, in which every trace file is created and fails to be
\* written.
RunnerTraceDirs == {"", "dir", "missing", "full"}

\* A runner made with or without a trace dir (RunnerOpts.TraceDir,
\* runner.go:241) and a working directory of the caller.
TraceInit ==
    /\ ctor = "abs"
    /\ rerr = ""
    /\ runner = "none"
    /\ workDir = "caller"
    /\ tempDir = ""
    /\ dirs = {"caller"}
    /\ cancel = FALSE
    /\ proc = "none"
    /\ sock = "absent"
    /\ i = 0
    /\ conn = "nil"
    /\ mutex = "free"
    /\ lastID = 0
    /\ pc = [t \in Threads |-> "idle"]
    /\ tx = [t \in Threads |-> NoTx]
    /\ ret = [t \in Threads |-> NoRet]
    /\ log = <<>>
    /\ c2s = <<>>
    /\ srvOut = <<>>
    /\ s2c = <<>>
    /\ answered = [n \in IDs |-> "none"]
    /\ closePc = "idle"
    /\ closes = 0
    /\ closeRet = "none"
    /\ optsTraceDir \in RunnerTraceDirs
    /\ traceFiles = {}
    /\ PipeIdle
    /\ ToolsIdle

\* The steps of one caller on that runner, which classifies until the model
\* process or the transport fails; Close is not called.
TraceNext ==
    \/ CtorAbs
    \/ CtorTempDir
    \/ CtorStart
    \/ CtorDial
    \/ CtorHello
    \/ CtorHelloReturn
    \/ CtorDeferred
    \/ \E t \in {"new", "c1"} : TxSend(t)
    \/ \E t \in {"new", "c1"} : TxTrace(t)
    \/ \E t \in {"new", "c1"} : TxDecodeRead(t)
    \/ \E t \in {"new", "c1"} : TxDecodeFail(t)
    \/ \E t \in {"new", "c1"} : TxDrain(t)
    \/ ClassifyCall("c1")
    \/ ClassifyLock("c1")
    \/ ClassifyReturn("c1")
    \/ ServerBind
    \/ ServerExit
    \/ ServerAnswer
    \/ ServerWrite

TraceSpec == TraceInit /\ [][TraceNext]_vars

\* ----------------------------------------------------------------- pipelines
\* The programs of src/cmd: a model has answered the hello, the parameters
\* are stored, and an audio or an image classifier is constructed on the
\* runner.  The runner is used through its interface edgeimpulse.Runner only
\* (ModelParameters and Classify), so the variables of the transport keep
\* their initial values here.

\* Highest numeric sensor code in a hello response (the lowest is -1).
MaxSensor == 4

\* Longest interval between classifications, in milliseconds.
MaxInterval == 3

\* Largest InputFeaturesCount.
MaxWindow == 3

\* Number of intervals the audio source delivers in full.
MaxReads == 4

SensorCodes == -1..MaxSensor
ModelTypes == {"", "classification", "object_detection"}
Frequencies == {1000, 1500}
\* The intervals looked at; with 18 ms and 1500 Hz the float64 product is
\* below the 27 samples of the interval.
Intervals == (1..MaxInterval) \cup {18}

\* Width and height of the images the camera model takes.
ImageWidth == 3
ImageHeight == 2

\* The hello responses looked at: every sensor code and model type, with and
\* without a key "SensorType" in the JSON document, for one microphone and
\* one camera setting; every microphone setting; a camera model that takes
\* grayscale images.
HelloResponses ==
    {[sensor |-> c, model_type |-> m, SensorType |-> st,
      frequency |-> 1000, input_features_count |-> 1,
      image_input_width |-> ImageWidth, image_input_height |-> ImageHeight,
      image_channel_count |-> 3] :
        c \in SensorCodes, m \in ModelTypes, st \in {"", "camera"}}
    \cup
    {[sensor |-> 1, model_type |-> "", SensorType |-> "",
      frequency |-> f, input_features_count |-> w,
      image_input_width |-> 0, image_input_height |-> 0,
      image_channel_count |-> 0] :
        f \in Frequencies, w \in 1..MaxWindow}
    \cup
    {[sensor |-> 3, model_type |-> "", SensorType |-> "",
      frequency |-> 0, input_features_count |-> ImageWidth * ImageHeight,
      image_input_width |-> ImageWidth, image_input_height |-> ImageHeight,
      image_channel_count |-> 1]}

PipelineInit ==
    /\ ctor = "abs"
    /\ rerr = ""
    /\ runner = "none"
    /\ workDir = ""
    /\ tempDir = ""
    /\ dirs = {}
    /\ cancel = FALSE
    /\ proc = "none"
    /\ sock = "absent"
    /\ i = 0
    /\ conn = "nil"
    /\ mutex = "free"
    /\ lastID = 0
    /\ pc = [t \in Threads |-> "idle"]
    /\ tx = [t \in Threads |-> NoTx]
    /\ ret = [t \in Threads |-> NoRet]
    /\ log = <<>>
    /\ c2s = <<>>
    /\ srvOut = <<>>
    /\ s2c = <<>>
    /\ answered = [n \in IDs |-> "none"]
    /\ closePc = "idle"
    /\ closes = 0
    /\ closeRet = "none"
    /\ optsTraceDir = ""
    /\ traceFiles = {}
    /\ helloResp \in HelloResponses
    /\ modelParams = NoParams
    /\ audioNew = "none"
    /\ imageNew = "none"
    /\ reader = FALSE
    /\ imageEvents = FALSE
    /\ imageLoop = FALSE
    /\ intervalSampleCount = 0
    /\ modelSamples = <<>>
    /\ modelSampleCount = 0
    /\ audioPos = 0
    /\ capture = "none"
    /\ worker = "none"
    /\ s = [samples |-> <<>>, err |-> ""]
    /\ samplesClosed = FALSE
    /\ events = <<>>
    /\ eventsClosed = FALSE
    /\ sent = <<>>
    /\ dropped = 0
    /\ audioClosed = FALSE
    /\ ImageIdle
    /\ ToolsIdle

\* The hello response is turned into r.modelParams (runner.go:304-319).
Hello ==
    /\ modelParams = NoParams
    /\ modelParams' = HelloParams(helloResp)
    /\ UNCHANGED <<toolVars, runnerVars, helloResp, newVars, windowVars, chanVars,
                   capture, worker, s>>
    /\ UNCHANGED <<audioClosed, imageVars>>

\* 2^k modulo n.
RECURSIVE Pow2Mod(_, _)
Pow2Mod(k, n) == IF k = 0 THEN 1 % n ELSE (2 * Pow2Mod(k - 1, n)) % n

\* The binary exponent of a positive integer: the e with 2^e <= n < 2^(e+1).
RECURSIVE Log2(_)
Log2(n) == IF n < 2 THEN 0 ELSE 1 + Log2(n \div 2)

\* interval.Seconds() for an interval of 1 to 999 milliseconds is the
\* float64 nearest to interval/1000, m / 2^(52+j) with 2^52 <= m < 2^53.
\* SecondsShift is j.
SecondsShift(interval) ==
    CHOOSE j \in 0..10 : interval * 2 ^ j >= 1000 /\ interval * 2 ^ j < 2000

\* What that float64 is short of interval/1000, in units of
\* 1 / (1000 * 2^(52+j)): m is the multiple of 1/2^(52+j) nearest to
\* interval/1000, so it is short by the remainder below 500 and above by
\* 1000 less the remainder otherwise (a remainder of 500 does not occur).
SecondsShort(interval) ==
    LET t == (interval * Pow2Mod(52 + SecondsShift(interval), 1000)) % 1000
    IN  IF t < 500 THEN t ELSE t - 1000

\* int(modelParams.Frequency * interval.Seconds()), the interval given in
\* milliseconds and shorter than a second (part_002:65). The conversion to
\* int drops the fraction of the float64 product. When frequency * interval
\* is a whole number n of samples, the product is the float64 nearest to
\* n - frequency * SecondsShort / (1000 * 2^(52+j)); that is the float64
\* below n, and the count n - 1, when the product is short of n by more than
\* half the distance between n and the float64 below it, 2^(e-52) for the
\* exponent e of the numbers below n.
IntervalSampleCount(frequency, interval) ==
    LET exact == (frequency * interval) \div 1000
        whole == (frequency * interval) % 1000 = 0
        e == IF 2 ^ Log2(exact) = exact THEN Log2(exact) - 1 ELSE Log2(exact)
    IN  IF /\ whole
           /\ exact > 0
           /\ 2 * frequency * SecondsShort(interval)
                  > 1000 * 2 ^ (SecondsShift(interval) + e)
        THEN exact - 1
        ELSE exact

\* Variant of AudioSensorMismatch: every sensor type is accepted.
AudioSensorAny == FALSE

\* The sensor test of audio.NewClassifier (part_002:54).
AudioSensorMismatch == modelParams.SensorType # "microphone"

\* audio.NewClassifier(runner, recorder, interval, opts) (part_002:47-147).
AudioNewClassifier ==
    /\ modelParams # NoParams
    /\ audioNew = "none"
    /\ IF AudioSensorMismatch
       THEN /\ audioNew' = "error"
            /\ UNCHANGED <<reader, windowVars, capture, worker>>
       ELSE /\ \E interval \in Intervals :
                 intervalSampleCount' =
                     IntervalSampleCount(modelParams.Frequency, interval)
            /\ modelSamples' = [j \in 1..modelParams.InputFeaturesCount |-> 0]
            /\ modelSampleCount' = 0
            /\ reader' = TRUE
            /\ capture' = "read"
            /\ worker' = "top"
            /\ audioNew' = "ok"
            /\ UNCHANGED audioPos
    /\ UNCHANGED <<toolVars, runnerVars, helloVars, imageNew, imageEvents, imageLoop,
                   chanVars, s>>
    /\ UNCHANGED <<audioClosed, imageVars>>

\* The sensor test of image.NewClassifier (image/classifier.go:64).
ImageSensorMismatch == modelParams.SensorType # "camera"

\* The values of opts.TraceDir looked at.
TraceDirs == {"", "dir"}

\* image.NewClassifier(runner, recorder, opts) up to the start of its
\* goroutine (image/classifier.go:57-80).
ImageNewClassifier ==
    /\ modelParams # NoParams
    /\ imageNew = "none"
    /\ IF ImageSensorMismatch
       THEN /\ imageNew' = "error"
            /\ UNCHANGED <<imageEvents, imageLoop, traceDir, seq, loop>>
       ELSE /\ imageEvents' = TRUE
            /\ imageLoop' = TRUE
            /\ traceDir' \in TraceDirs
            /\ seq' = 2
            /\ loop' = "top"
            /\ imageNew' = "ok"
    /\ UNCHANGED <<toolVars, runnerVars, helloVars, audioNew, reader, windowVars,
                   chanVars, capture, worker, s, audioClosed, iev, data, pngs,
                   out, imageChanVars, producer, made>>

\* ------------------------------------------------------- audio classifier

\* Capacity of the channel c.Events (part_002:59).
EventsCap == 1

\* The recorder's stream: 16-bit samples, the k-th (from 0) being
\* SourceSample(k), each written as two bytes, low byte first.
SourceSample(k) == IF k % 2 = 1 THEN 0 - (k + 1) ELSE 300 + k

AudioByte(p) ==
    LET v == SourceSample(p \div 2)
        u == IF v < 0 THEN v + 65536 ELSE v
    IN  IF p % 2 = 0 THEN u % 256 ELSE u \div 256

\* binary.Read(r, binary.LittleEndian, &v) for an int16 v, and float64(v)
\* (part_002:122-124).
Int16LE(lo, hi) ==
    LET u == lo + 256 * hi
    IN  IF u >= 32768 THEN u - 65536 ELSE u

\* io.ReadFull(audio, intervalBuf) without error: the next
\* 2*intervalSampleCount bytes of the stream (part_002:97).
ReadFull(pos, n) == [j \in 1..n |-> AudioByte(pos + j - 1)]

Min(a, b) == IF a < b THEN a ELSE b

\* Variant of SampleCount: a long interval is taken whole.
SampleCountWhole(count, length) == count

\* The samples of an interval that go into the window: all of them, or as
\* many as the window holds when the interval is longer (part_002:103-108).
SampleCount(count, length) == Min(count, length)

\* Variant of CopyDown: the old samples are not moved.
CopyNone(ms, n) == ms

\* copy(modelSamples, modelSamples[n:]) (part_002:115).
CopyDown(ms, n) ==
    [j \in 1..Len(ms) |-> IF j + n <= Len(ms) THEN ms[j + n] ELSE ms[j]]

\* The window after one interval buffer was taken in (part_002:103-126):
\* the new contents and the new modelSampleCount.
WindowUpdate(ms, count, intervalBuf) ==
    LET sampleCount == SampleCount(intervalSampleCount, Len(ms))
        skip == 2 * (intervalSampleCount - sampleCount)
        buf == SubSeq(intervalBuf, skip + 1, Len(intervalBuf))
        end == count + sampleCount
        n == IF end > Len(ms) THEN end - Len(ms) ELSE 0
        moved == IF n > 0 THEN CopyDown(ms, n) ELSE ms
        start == count - n
    IN  [samples |->
            [j \in 1..Len(ms) |->
                IF j - 1 >= start /\ j - 1 < start + sampleCount
                THEN Int16LE(buf[2 * (j - 1 - start) + 1],
                             buf[2 * (j - 1 - start) + 2])
                ELSE moved[j]],
         count |-> start + sampleCount]

\* Variant of SnapshotAfterWrite: the slice handed to the worker is the
\* window itself, so it shows what the capture loop writes.
SnapshotAliased(snap, window) == [snap EXCEPT !.samples = window]

\* The slice handed to the worker, after the capture loop has written the
\* window: it was made and copied for the hand-off (part_002:131-134), so
\* the writes do not reach it.
SnapshotAfterWrite(snap, window) == snap

\* One iteration of the capture loop whose read succeeds, up to the test of
\* the fill count (part_002:95-130).
CaptureRead ==
    /\ capture = "read"
    /\ audioPos < 2 * intervalSampleCount * MaxReads
    /\ LET w == WindowUpdate(modelSamples, modelSampleCount,
                             ReadFull(audioPos, 2 * intervalSampleCount))
       IN  /\ modelSamples' = w.samples
           /\ modelSampleCount' = w.count
           /\ capture' = IF w.count < Len(modelSamples) THEN "read"
                         ELSE "handoff"
           /\ s' = SnapshotAfterWrite(s, w.samples)
    /\ audioPos' = audioPos + 2 * intervalSampleCount
    /\ UNCHANGED <<toolVars, runnerVars, helloVars, newVars, intervalSampleCount,
                   chanVars, worker>>
    /\ UNCHANGED <<audioClosed, imageVars>>

\* Variant of HandOffReady: the send is made whatever the worker is doing.
HandOffAlways == TRUE

\* The send case of the select on the unbuffered channel samples can be
\* taken only when the worker is waiting in its receive (part_002:136-137).
HandOffReady == worker = "recv"

\* Variant of SelectHasDefault: a select with the send case only.
SelectWaits == FALSE

\* The select has a default case, so it never waits (part_002:138-141).
SelectHasDefault == TRUE

\* The copy of the window and the select (part_002:132-142).
CaptureHandOff ==
    /\ capture = "handoff"
    /\ HandOffReady \/ SelectHasDefault
    /\ IF HandOffReady
       THEN /\ s' = [samples |-> modelSamples, err |-> ""]
            /\ worker' = "classify"
            /\ UNCHANGED dropped
       ELSE /\ dropped' = dropped + 1
            /\ UNCHANGED <<s, worker>>
    /\ capture' = "read"
    /\ UNCHANGED <<toolVars, runnerVars, helloVars, newVars, windowVars, samplesClosed,
                   events, eventsClosed, sent>>
    /\ UNCHANGED <<audioClosed, imageVars>>

\* io.ReadFull returns an error: the stream ended or was closed
\* (part_002:97).
CaptureReadFail ==
    /\ capture = "read"
    /\ capture' = "errsend"
    /\ UNCHANGED <<toolVars, runnerVars, helloVars, newVars, windowVars, chanVars,
                   worker, s>>
    /\ UNCHANGED <<audioClosed, imageVars>>

\* A send on c.Events can be made when the buffer has room.
EventsRoom == Len(events) < EventsCap

\* Variant of DeferredCloseSamples: the goroutine returns without closing.
NoDeferredClose == FALSE

\* The deferred function of the capture goroutine closes samples
\* (part_002:91-93).
DeferredCloseSamples == TRUE

\* The error event is sent, the goroutine returns and its deferred function
\* closes samples (part_002:91-93, 98-99).
CaptureErrSend ==
    /\ capture = "errsend"
    /\ EventsRoom
    /\ events' = Append(events, [kind |-> "read", samples |-> <<>>])
    /\ sent' = Append(sent, "read")
    /\ samplesClosed' = DeferredCloseSamples
    /\ capture' = "done"
    /\ UNCHANGED <<toolVars, runnerVars, helloVars, newVars, windowVars, eventsClosed,
                   dropped, worker, s>>
    /\ UNCHANGED <<audioClosed, imageVars>>

\* The worker arrives at its receive and waits (part_002:75).
WorkerWait ==
    /\ worker = "top"
    /\ ~samplesClosed
    /\ worker' = "recv"
    /\ UNCHANGED <<toolVars, runnerVars, helloVars, newVars, windowVars, chanVars,
                   capture, s>>
    /\ UNCHANGED <<audioClosed, imageVars>>

\* The receive finds samples closed and the worker returns (part_002:75-78).
WorkerReturn ==
    /\ worker \in {"top", "recv"}
    /\ samplesClosed
    /\ worker' = "done"
    /\ UNCHANGED <<toolVars, runnerVars, helloVars, newVars, windowVars, chanVars,
                   capture, s>>
    /\ UNCHANGED <<audioClosed, imageVars>>

\* Errors runner.Classify returns ("" is nil).
ClassifyErrors == {"", "failed"}

\* runner.Classify(s) returns (part_002:80).
WorkerClassify ==
    /\ worker = "classify"
    /\ \E e \in ClassifyErrors : s' = [s EXCEPT !.err = e]
    /\ worker' = "emit"
    /\ UNCHANGED <<toolVars, runnerVars, helloVars, newVars, windowVars, chanVars,
                   capture>>
    /\ UNCHANGED <<audioClosed, imageVars>>

\* The worker returns after the event of a failed Classify (part_002:81-84).
WorkerStopsOnError == s.err # ""

\* The event of the classification is sent (part_002:81-85).
WorkerEmit ==
    /\ worker = "emit"
    /\ EventsRoom
    /\ events' = Append(events,
                        IF s.err # ""
                        THEN [kind |-> "error", samples |-> <<>>]
                        ELSE [kind |-> "ok", samples |-> s.samples])
    /\ sent' = Append(sent, IF s.err # "" THEN "error" ELSE "ok")
    /\ worker' = IF WorkerStopsOnError THEN "done" ELSE "top"
    /\ s' = [samples |-> <<>>, err |-> ""]
    /\ UNCHANGED <<toolVars, runnerVars, helloVars, newVars, windowVars, samplesClosed,
                   eventsClosed, dropped, capture>>
    /\ UNCHANGED <<audioClosed, imageVars>>

\* The consumer of c.Events receives an event (cmd/eimaudio/main.go:133).
ConsumerReceive ==
    /\ events # <<>>
    /\ events' = Tail(events)
    /\ UNCHANGED <<toolVars, runnerVars, helloVars, newVars, windowVars, samplesClosed,
                   eventsClosed, sent, dropped, capture, worker, s>>
    /\ UNCHANGED <<audioClosed, imageVars>>

\* Classifier.Close of the audio classifier: it returns nil and does nothing
\* else (part_002:149-153).
AudioClose ==
    /\ audioNew = "ok"
    /\ ~audioClosed
    /\ audioClosed' = TRUE
    /\ UNCHANGED <<toolVars, runnerVars, helloVars, newVars, windowVars, chanVars,
                   capture, worker, s, imageVars>>

\* ------------------------------------------------------- image classifier
\* The recorders of this repository hand images of type *image.YCbCr or
\* *image.Gray to the classifier; the images looked at here are of the two
\* types the classifier converts to, NRGBA and Gray. Two have the size the
\* model takes, one is small and of another shape, and one has the 640 x 480
\* pixels of a camera frame.

\* Number of events the recorder's goroutine makes.
MaxImages == 3

\* Capacity of the channel c.Events (image/classifier.go:69).
ImageEventsCap == 1

\* Capacity of the channel c.stop (image/classifier.go:71).
StopCap == 1

\* Colours of NRGBA pixels (not alpha-premultiplied; one is half transparent)
\* and intensities of Gray pixels.
Colours ==
    <<[R |-> 255, G |-> 0, B |-> 0, A |-> 255],
      [R |-> 1, G |-> 2, B |-> 3, A |-> 255],
      [R |-> 200, G |-> 100, B |-> 50, A |-> 128],
      [R |-> 0, G |-> 255, B |-> 128, A |-> 255],
      [R |-> 17, G |-> 34, B |-> 51, A |-> 255]>>
Levels == <<0, 7, 128, 255, 64>>

\* The images the recorder makes, each named by its type, its size and the
\* shift of its pattern: two of the model's size, and two that imageResize
\* has to scale and to crop, a small one and a camera frame.
Images ==
    {[kind |-> k, shift |-> 0, width |-> ImageWidth, height |-> ImageHeight] :
         k \in {"NRGBA", "Gray"}}
    \cup {[kind |-> "NRGBA", shift |-> 0, width |-> 7, height |-> 30],
          [kind |-> "Gray", shift |-> 0, width |-> 640, height |-> 480]}

\* iev.Image.At(x, y): the pixel at (x, y) of the image an event names.
PixelAt(img, x, y) ==
    LET n == ((x + img.width * y + img.shift) % 5) + 1
    IN  IF img.kind = "NRGBA" THEN Colours[n] ELSE Levels[n]

\* iev.Image with all its pixels: pix[x][y] is the pixel img.At(x, y).
ImageOf(img) ==
    [kind |-> img.kind, width |-> img.width, height |-> img.height,
     pix |-> [x \in 0..(img.width - 1) |->
                [y \in 0..(img.height - 1) |-> PixelAt(img, x, y)]]]

\* img.Bounds().Size() (image/classifier.go:97).
Width(img) == img.width
Height(img) == img.height

\* The pixel of an image as the pixel of an NRGBA image, as imaging makes it
\* of the images it reads.
AsNRGBA(kind, c) ==
    IF kind = "NRGBA" THEN c ELSE [R |-> c, G |-> c, B |-> c, A |-> 255]

\* The binary exponent of the ratio from / to: the g with
\* 2^g <= from / to < 2^(g+1).
RatioExponent(from, to) ==
    IF from >= to THEN Log2(from \div to)
    ELSE 0 - (CHOOSE j \in 1..31 : from * 2 ^ j >= to /\ from * 2 ^ (j - 1) < to)

\* int((float64(x) + 0.5) * dx) for dx := float64(from) / float64(to), the
\* index in a side of `from` pixels for pixel x of a side of `to` pixels.
\* dx is the float64 nearest to from/to, m / 2^(52-g) for the exponent g of
\* the ratio; it is below from/to by t / (to * 2^(52-g)) when the remainder
\* t of from * 2^(52-g) by `to` is under half of `to`. When (x + 0.5) * from
\* / to is a whole number n, the product is then the float64 below n, and
\* the index n - 1, if it is short of n by more than half the distance
\* between n and the float64 below it, 2^(e-52) for the exponent e of the
\* numbers below n.
NearestIndex(x, from, to) ==
    LET a == 2 * x + 1
        exact == (a * from) \div (2 * to)
        whole == (a * from) % (2 * to) = 0
        g == RatioExponent(from, to)
        t == ((from % to) * Pow2Mod(52 - g, to)) % to
        e == IF 2 ^ Log2(exact) = exact THEN Log2(exact) - 1 ELSE Log2(exact)
        short == IF e >= g THEN a * t > to * 2 ^ (e - g)
                 ELSE a * t * 2 ^ (g - e) > to
    IN  IF whole /\ t # 0 /\ 2 * t < to /\ short THEN exact - 1 ELSE exact

\* The length of the other side when one side of a sides-long image is
\* scaled to `to`: int(max(1, floor(to * other / side + 0.5))).
ScaledSide(to, other, side) ==
    LET n == (2 * to * other + side) \div (2 * side)
    IN  IF n < 1 THEN 1 ELSE n

\* imaging's resizeAndCrop: the image is scaled until one side fits and the
\* other is not shorter than asked for (imaging.Resize with
\* imaging.NearestNeighbor: pixel (x, y) of the scaled image is the pixel of
\* img at int((x + 0.5) * dx) and int((y + 0.5) * dy), dx and dy the ratios
\* of the old size to the new), and that is cropped around the centre
\* (imaging.CropAnchor with imaging.Center: the corner of the rectangle is
\* half the surplus from the corner of the image). The result is an NRGBA
\* image.
resizeAndCrop(img, width, height) ==
    LET narrow == Width(img) * height < width * Height(img)
        w == IF narrow THEN width
             ELSE ScaledSide(height, Width(img), Height(img))
        h == IF narrow THEN ScaledSide(width, Height(img), Width(img))
             ELSE height
        x0 == (w - width) \div 2
        y0 == (h - height) \div 2
    IN  [kind |-> "NRGBA", width |-> width, height |-> height,
         pix |-> [x \in 0..(width - 1) |->
                    [y \in 0..(height - 1) |->
                        AsNRGBA(img.kind,
                                PixelAt(img,
                                        NearestIndex(x0 + x, Width(img), w),
                                        NearestIndex(y0 + y, Height(img), h)))]]]

\* imaging's cropAndResize: the image is cropped around the centre to the
\* shape asked for, and that is scaled as above.
cropAndResize(img, width, height) ==
    LET narrow == Width(img) * height < width * Height(img)
        w == IF narrow THEN Width(img)
             ELSE ScaledSide(width, Height(img), height)
        h == IF narrow THEN ScaledSide(height, Width(img), width)
             ELSE Height(img)
        x0 == (Width(img) - w) \div 2
        y0 == (Height(img) - h) \div 2
    IN  [kind |-> "NRGBA", width |-> width, height |-> height,
         pix |-> [x \in 0..(width - 1) |->
                    [y \in 0..(height - 1) |->
                        AsNRGBA(img.kind,
                                PixelAt(img,
                                        x0 + NearestIndex(x, w, width),
                                        y0 + NearestIndex(y, h, height)))]]]

\* imageResize(img, size, verbose) (image/classifier.go:183-190):
\* imaging.Fill(img, width, height, imaging.Center, imaging.NearestNeighbor),
\* which crops first when both sides of the image have 100 pixels or more.
imageResize(img, width, height) ==
    IF Width(img) >= 100 /\ Height(img) >= 100
    THEN cropAndResize(img, width, height)
    ELSE resizeAndCrop(img, width, height)

\* img as the loop goes on with it: resized when its size is not the model's
\* (image/classifier.go:94-103).
Resized(img, width, height) ==
    IF Width(img) # width \/ Height(img) # height
    THEN imageResize(img, width, height)
    ELSE ImageOf(img)

\* color.NRGBA.RGBA() and color.Gray.RGBA(): the alpha-premultiplied 16-bit
\* red, green and blue of a pixel (image/classifier.go:133).
RGBA(kind, c) ==
    IF kind = "NRGBA"
    THEN [r |-> (c.R * 257 * c.A) \div 255,
          g |-> (c.G * 257 * c.A) \div 255,
          b |-> (c.B * 257 * c.A) \div 255]
    ELSE [r |-> c * 257, g |-> c * 257, b |-> c * 257]

\* draw.Draw into a new NRGBA image, pixel by pixel (image/classifier.go:112-114):
\* color.NRGBAModel of an opaque pixel.
ToNRGBA(kind, c) ==
    LET p == RGBA(kind, c)
    IN  [R |-> p.r \div 256, G |-> p.g \div 256, B |-> p.b \div 256, A |-> 255]

\* draw.Draw into a new Gray image, pixel by pixel (image/classifier.go:123-125):
\* color.GrayModel.
\* (19595*r + 38470*g + 7471*b + 1<<15) >> 24, which fits 32 bits unsigned;
\* it is computed here from the high and low bytes of r, g and b.
ToGray(kind, c) ==
    LET p == RGBA(kind, c)
        hi == 19595 * (p.r \div 256) + 38470 * (p.g \div 256)
              + 7471 * (p.b \div 256)
        lo == 19595 * (p.r % 256) + 38470 * (p.g % 256)
              + 7471 * (p.b % 256) + 32768
    IN  (hi + lo \div 256) \div 65536

\* img after the conversion to the type the channel count asks for
\* (image/classifier.go:105-127).
Converted(img, channels) ==
    IF channels = 3
    THEN IF img.kind = "NRGBA" THEN img
         ELSE [kind |-> "NRGBA", width |-> img.width, height |-> img.height,
               pix |-> [x \in DOMAIN img.pix |->
                          [y \in DOMAIN img.pix[x] |->
                              ToNRGBA(img.kind, img.pix[x][y])]]]
    ELSE IF img.kind = "Gray" THEN img
         ELSE [kind |-> "Gray", width |-> img.width, height |-> img.height,
               pix |-> [x \in DOMAIN img.pix |->
                          [y \in DOMAIN img.pix[x] |->
                              ToGray(img.kind, img.pix[x][y])]]]

\* The channels packed in the opposite order: a variant of Feature.
FeatureBGR(p) ==
    (p.b \div 256) * 65536 + (p.g \div 256) * 256 + (p.r \div 256)

\* v := (r << 16) | (g << 8) | b after r, g and b were shifted right by 8
\* (image/classifier.go:133-138).
Feature(p) ==
    (p.r \div 256) * 65536 + (p.g \div 256) * 256 + (p.b \div 256)

\* The features of an image for a model of width * height pixels
\* (image/classifier.go:94-141).
Features(img, width, height, channels) ==
    LET cimg == Converted(Resized(img, width, height), channels)
    IN  [n \in 1..(width * height) |->
            Feature(RGBA(cimg.kind,
                         cimg.pix[(n - 1) % width][(n - 1) \div width]))]

\* Outcomes of os.Create and png.Encode of a trace file.
TraceWrites == {"written", "failed"}

\* Variant of ErrorEvent: the event says that the classification failed.
ErrorEventOther(ev) == [id |-> ev.id, kind |-> "error", err |-> "failed"]

\* ClassifyEvent{Err: iev.Err} (image/classifier.go:90).
ErrorEvent(ev) == [id |-> ev.id, kind |-> "error", err |-> ev.err]

\* iev.Err != nil (image/classifier.go:89).
EventIsError(ev) == ev.err # ""

\* The loop has received the image event ev: an error event is turned into
\* the ClassifyEvent to send; of an image the features are made, the trace
\* file image-<seq>.png is written when tracing is on, and runner.Classify is
\* called (image/classifier.go:85-161).
LoopTake(ev) ==
    /\ received' = Append(received, [id |-> ev.id, err |-> ev.err])
    /\ iev' = ev
    /\ IF EventIsError(ev)
       THEN /\ out' = ErrorEvent(ev)
            /\ loop' = "emit"
            /\ UNCHANGED <<data, pngs, classified>>
       ELSE /\ data' = Features(ev.img, modelParams.ImageInputWidth,
                                modelParams.ImageInputHeight,
                                modelParams.ImageChannelCount)
            /\ \E w \in TraceWrites :
                   pngs' = IF traceDir # "" /\ w = "written"
                           THEN Append(pngs, seq) ELSE pngs
            /\ classified' = Append(classified, ev.id)
            /\ loop' = "classify"
            /\ UNCHANGED out

\* The recorder's goroutine has decoded an image and offers it in a select
\* with a default case: the loop takes it if it waits in its select, else
\* the image is dropped (part_004:166-181, part_003:183-199,
\* image/device.go:465-481).
ProducerImage ==
    /\ imageEvents
    /\ producer = "watch"
    /\ made < MaxImages
    /\ made' = made + 1
    /\ IF loop = "select"
       THEN \E img \in Images :
                LoopTake([id |-> made + 1, err |-> "", img |-> img])
       ELSE UNCHANGED <<loop, iev, data, pngs, out, received, classified>>
    /\ UNCHANGED <<toolVars, runnerVars, helloVars, newVars, windowVars, chanVars,
                   capture, worker, s, audioClosed, traceDir, seq, stop,
                   imageCloses, imgEvents, imgSent, producer>>

\* The error event of the file watcher the recorder's goroutine sends.
WatchError == [id |-> made + 1, err |-> "watching", img |-> <<>>]

\* The file watcher reports an error and the recorder's goroutine sends it
\* with a plain send, which waits for the loop (part_004:183-187,
\* part_003:201-205, image/device.go:483-487).
ProducerError ==
    /\ imageEvents
    /\ producer = "watch"
    /\ made < MaxImages
    /\ made' = made + 1
    /\ IF loop = "select"
       THEN /\ LoopTake(WatchError)
            /\ UNCHANGED producer
       ELSE /\ producer' = "errsend"
            /\ UNCHANGED <<loop, iev, data, pngs, out, received, classified>>
    /\ UNCHANGED <<toolVars, runnerVars, helloVars, newVars, windowVars, chanVars,
                   capture, worker, s, audioClosed, traceDir, seq, stop,
                   imageCloses, imgEvents, imgSent>>

\* The loop arrives at its select and nothing is ready: it waits
\* (image/classifier.go:82).
LoopWait ==
    /\ loop = "top"
    /\ stop = 0
    /\ producer = "watch"
    /\ loop' = "select"
    /\ UNCHANGED <<toolVars, runnerVars, helloVars, newVars, windowVars, chanVars,
                   capture, worker, s, audioClosed, traceDir, iev, data, seq,
                   pngs, out, imageChanVars, producer, made>>

\* The loop arrives at its select and takes the stop case, which is ready
\* (image/classifier.go:83-84).
LoopStop ==
    /\ loop = "top"
    /\ stop > 0
    /\ stop' = stop - 1
    /\ loop' = "done"
    /\ UNCHANGED <<toolVars, runnerVars, helloVars, newVars, windowVars, chanVars,
                   capture, worker, s, audioClosed, traceDir, iev, data, seq,
                   pngs, out, imageCloses, imgEvents, imgSent, received,
                   classified, producer, made>>

\* The loop arrives at its select and takes the image event of the waiting
\* sender; when the stop case is ready too, the select picks either
\* (image/classifier.go:85).
LoopReceive ==
    /\ loop = "top"
    /\ producer = "errsend"
    /\ LoopTake([id |-> made, err |-> "watching", img |-> <<>>])
    /\ producer' = "watch"
    /\ UNCHANGED <<toolVars, runnerVars, helloVars, newVars, windowVars, chanVars,
                   capture, worker, s, audioClosed, traceDir, seq, stop,
                   imageCloses, imgEvents, imgSent, made>>

\* A recorder ends its stream and closes the channel its Events method
\* returned (the Recorder interface, image/classifier.go:198-205; the
\* recorders of this repository never do).
RecorderClose ==
    /\ imageEvents
    /\ producer = "watch"
    /\ producer' = "closed"
    /\ UNCHANGED <<toolVars, runnerVars, helloVars, newVars, windowVars, chanVars,
                   capture, worker, s, audioClosed, traceDir, loopVars,
                   imageChanVars, made>>

\* The receive from the closed channel gives ok = false, in a loop that
\* waited in its select or arrives at it, and the loop returns; when the stop
\* case is ready too, the select picks either (image/classifier.go:85-88).
LoopClosed ==
    /\ loop \in {"top", "select"}
    /\ producer = "closed"
    /\ loop' = "done"
    /\ UNCHANGED <<toolVars, runnerVars, helloVars, newVars, windowVars, chanVars,
                   capture, worker, s, audioClosed, traceDir, iev, data, seq,
                   pngs, out, imageChanVars, producer, made>>

\* runner.Classify(data) returns (image/classifier.go:161-166).
LoopClassify ==
    /\ loop = "classify"
    /\ \E e \in ClassifyErrors :
           out' = [id |-> iev.id, kind |-> IF e = "" THEN "ok" ELSE "error",
                   err |-> e]
    /\ loop' = "emit"
    /\ UNCHANGED <<toolVars, runnerVars, helloVars, newVars, windowVars, chanVars,
                   capture, worker, s, audioClosed, traceDir, iev, data, seq,
                   pngs, imageChanVars, producer, made>>

\* seq++ is reached after the event of a successful Classify only
\* (image/classifier.go:162-167).
SeqAdvances == out.kind = "ok"

\* A send on the image classifier's c.Events can be made when the buffer has
\* room.
ImageEventsRoom == Len(imgEvents) < ImageEventsCap

\* The ClassifyEvent is sent and the loop goes on (image/classifier.go:90-91,
\* 163-167).
LoopEmit ==
    /\ loop = "emit"
    /\ ImageEventsRoom
    /\ imgEvents' = Append(imgEvents, out)
    /\ imgSent' = Append(imgSent, out)
    /\ seq' = IF SeqAdvances THEN seq + 1 ELSE seq
    /\ loop' = "top"
    /\ out' = NoOut
    /\ iev' = NoEvent
    /\ data' = <<>>
    /\ UNCHANGED <<toolVars, runnerVars, helloVars, newVars, windowVars, chanVars,
                   capture, worker, s, audioClosed, traceDir, pngs, stop,
                   imageCloses, received, classified, producer, made>>

\* The consumer of the image classifier's c.Events receives an event.
ImageConsumerReceive ==
    /\ imgEvents # <<>>
    /\ imgEvents' = Tail(imgEvents)
    /\ UNCHANGED <<toolVars, runnerVars, helloVars, newVars, windowVars, chanVars,
                   capture, worker, s, audioClosed, traceDir, loopVars, stop,
                   imageCloses, imgSent, received, classified, producer, made>>

\* The loop waits in its select for a value: it is parked there and the
\* close of the recorder's channel has not woken it (image/classifier.go:82).
LoopParked == loop = "select" /\ producer # "closed"

\* Classifier.Close of the image classifier: c.stop <- struct{}{}.  A loop
\* waiting in its select receives the value and returns; otherwise the value
\* is buffered, and the send waits while the buffer is full
\* (image/classifier.go:177-180).
ImageClose ==
    /\ imageNew = "ok"
    /\ imageCloses < MaxCloses
    /\ LoopParked \/ stop < StopCap
    /\ IF LoopParked
       THEN /\ loop' = "done"
            /\ UNCHANGED stop
       ELSE /\ stop' = stop + 1
            /\ UNCHANGED loop
    /\ imageCloses' = imageCloses + 1
    /\ UNCHANGED <<toolVars, runnerVars, helloVars, newVars, windowVars, chanVars,
                   capture, worker, s, audioClosed, traceDir, iev, data, seq,
                   pngs, out, imgEvents, imgSent, received, classified,
                   producer, made>>

PipelineNext ==
    \/ Hello
    \/ AudioNewClassifier
    \/ ImageNewClassifier
    \/ CaptureRead
    \/ CaptureHandOff
    \/ CaptureReadFail
    \/ CaptureErrSend
    \/ WorkerWait
    \/ WorkerReturn
    \/ WorkerClassify
    \/ WorkerEmit
    \/ ConsumerReceive
    \/ AudioClose
    \/ ProducerImage
    \/ ProducerError
    \/ LoopWait
    \/ LoopStop
    \/ LoopReceive
    \/ RecorderClose
    \/ LoopClosed
    \/ LoopClassify
    \/ LoopEmit
    \/ ImageConsumerReceive
    \/ ImageClose

PipelineSpec == PipelineInit /\ [][PipelineNext]_vars

\* ------------------------------------------------- moving average filter

\* Largest history size given to NewMAF, and the most calls of Update.
MaxMafSize == 3
MaxUpdates == 4

\* No runner is constructed: the state before NewRunnerProcess is called.
RunnerIdle ==
    /\ ctor = "abs"
    /\ rerr = ""
    /\ runner = "none"
    /\ workDir = ""
    /\ tempDir = ""
    /\ dirs = {}
    /\ cancel = FALSE
    /\ proc = "none"
    /\ sock = "absent"
    /\ i = 0
    /\ conn = "nil"
    /\ mutex = "free"
    /\ lastID = 0
    /\ pc = [t \in Threads |-> "idle"]
    /\ tx = [t \in Threads |-> NoTx]
    /\ ret = [t \in Threads |-> NoRet]
    /\ log = <<>>
    /\ c2s = <<>>
    /\ srvOut = <<>>
    /\ s2c = <<>>
    /\ answered = [n \in IDs |-> "none"]
    /\ closePc = "idle"
    /\ closes = 0
    /\ closeRet = "none"
    /\ optsTraceDir = ""
    /\ traceFiles = {}

\* The label lists given to NewMAF, the keys of the classifications given to
\* Update ("c" is in no label list) and their values.  The values are small
\* integers, on which the float64 arithmetic of Update is exact.
MafLabelLists == {<<>>, <<"a">>, <<"a", "b">>}
MafKeys == {"a", "b", "c"}
MafValues == {1, 2}

\* The classifications: the maps from some of the keys to values, the empty
\* map (and nil) among them.
Classifications ==
    UNION {{cls \in [K -> MafValues] : "c" \in K => cls["c"] = 1} :
              K \in SUBSET MafKeys}

\* sum / float64(len(values)): the quotient, kept as numerator and denominator.
Quot(sum, n) == [num |-> sum, den |-> n]

\* The map m with m[key] = value added or replaced.
MapSet(m, key, value) ==
    [k \in DOMAIN m \cup {key} |-> IF k = key THEN value ELSE m[k]]

\* The orders in which a range over a map with keys K visits them: any.
Orders(K) ==
    {o \in [1..Cardinality(K) -> K] :
        \A m, n \in 1..Cardinality(K) : m # n => o[m] # o[n]}

\* The test of the size (maf.go NewMAF, `if size == 0`).
MafSizeInvalid(size) == size = 0

\* Variant of EmptyClassification: an empty classification is let through.
EmptyClassificationAllowed(cls) == FALSE

\* len(classification) == 0, true of nil too.
EmptyClassification(cls) == DOMAIN cls = {}

\* Variant of NextIndex: the index stays at the first slot.
NextIndexStuck(index, n) == 0

\* ls.index++, back to 0 at the end of the history.
NextIndex(index, n) == IF index + 1 >= n THEN 0 ELSE index + 1

\* NewMAF(size, labels).
NewMAF ==
    /\ maf.made = "none"
    /\ \E size \in 0..MaxMafSize, labels \in MafLabelLists :
         LET call == [NoMafRet EXCEPT !.op = "NewMAF", !.size = size,
                                      !.labels = labels]
         IN  IF MafSizeInvalid(size)
             THEN /\ maf' = [maf EXCEPT !.made = "nil"]
                  /\ mafRet' = [call EXCEPT !.kind = "error", !.err = "size"]
                  /\ UNCHANGED mafHist
             ELSE IF Len(labels) = 0
             THEN /\ maf' = [maf EXCEPT !.made = "nil"]
                  /\ mafRet' = [call EXCEPT !.kind = "error", !.err = "labels"]
                  /\ UNCHANGED mafHist
             ELSE /\ maf' = [made |-> "new",
                             state |-> [l \in {labels[n] : n \in 1..Len(labels)} |->
                                          [index |-> 0, sum |-> 0,
                                           values |-> [j \in 1..size |-> 0]]]]
                  /\ mafRet' = [call EXCEPT !.kind = "ok"]
                  /\ mafHist' = [l \in {labels[n] : n \in 1..Len(labels)} |-> <<>>]
    /\ UNCHANGED <<mafUpdates, mafFailed>>
    /\ UNCHANGED <<runnerVars, pipeVars, soxVars>>

\* m0 := &MAF{}: a filter that NewMAF did not make; its state is nil.
ZeroMAF ==
    /\ maf.made = "none"
    /\ maf' = [maf EXCEPT !.made = "zero"]
    /\ UNCHANGED <<mafRet, mafHist, mafUpdates, mafFailed>>
    /\ UNCHANGED <<runnerVars, pipeVars, soxVars>>

\* The loop of Update over the classification, in the order the range visits
\* its keys: it returns at the first unknown label, with what it has done to
\* the labels before it.
RECURSIVE UpdateLoop(_, _, _, _)
UpdateLoop(state, r, order, cls) ==
    IF order = <<>> THEN [err |-> "", state |-> state, r |-> r]
    ELSE LET label == Head(order)
         IN  IF label \notin DOMAIN state
             THEN [err |-> "unknown label", state |-> state, r |-> EmptyMap]
             ELSE LET ls == state[label]
                      value == cls[label]
                      sum == (ls.sum - ls.values[ls.index + 1]) + value
                      values == [ls.values EXCEPT ![ls.index + 1] = value]
                      index == NextIndex(ls.index, Len(values))
                  IN  UpdateLoop(
                          [state EXCEPT ![label] =
                              [index |-> index, sum |-> sum, values |-> values]],
                          MapSet(r, label, Quot(sum, Len(values))),
                          Tail(order), cls)

\* m.Update(classification).
Update ==
    /\ maf.made \in {"zero", "new"}
    /\ mafUpdates < MaxUpdates
    /\ mafUpdates' = mafUpdates + 1
    /\ \E cls \in Classifications :
         LET call == [NoMafRet EXCEPT !.op = "Update", !.cls = cls]
         IN  IF maf.made = "zero"
             THEN /\ mafRet' = [call EXCEPT !.kind = "error", !.err = "invalid MAF"]
                  /\ mafFailed' = TRUE
                  /\ UNCHANGED <<maf, mafHist>>
             ELSE IF EmptyClassification(cls)
             THEN /\ mafRet' = [call EXCEPT !.kind = "error", !.err = "empty"]
                  /\ mafFailed' = TRUE
                  /\ UNCHANGED <<maf, mafHist>>
             ELSE \E order \in Orders(DOMAIN cls) :
                    LET res == UpdateLoop(maf.state, EmptyMap, order, cls)
                    IN  /\ maf' = [maf EXCEPT !.state = res.state]
                        /\ IF res.err = ""
                           THEN /\ mafRet' = [call EXCEPT !.kind = "ok", !.r = res.r]
                                /\ mafHist' =
                                     [l \in DOMAIN mafHist |->
                                        IF l \in DOMAIN cls
                                        THEN Append(mafHist[l], cls[l])
                                        ELSE mafHist[l]]
                                /\ UNCHANGED mafFailed
                           ELSE /\ mafRet' = [call EXCEPT !.kind = "error",
                                                          !.err = res.err]
                                /\ mafFailed' = TRUE
                                /\ UNCHANGED mafHist
    /\ UNCHANGED <<runnerVars, pipeVars, soxVars>>

MafInit == RunnerIdle /\ PipeIdle /\ ToolsIdle

MafNext == NewMAF \/ ZeroMAF \/ Update

MafSpec == MafInit /\ [][MafNext]_vars

\* ------------------------------------------------------- parseSoxDevices

\* Longest output of sox, in symbols.
MaxText == 8

\* The output of sox is a string of symbols: "F" is the text
\* `sox INFO coreaudio: Found Audio Device ` up to and without the quote that
\* soxRegexp wants after it, "Q" the double quote, "a" any other character
\* and "\n" the newline. No symbol is part of another, so a string of
\* symbols stands for one text.
SoxSymbols == {"F", "Q", "a", "\n"}

SoxTexts == UNION {[1..n -> SoxSymbols] : n \in 0..MaxText}

\* strings.Split(s, "\n"): the pieces between the newlines, empty ones too.
RECURSIVE Split(_, _)
Split(text, line) ==
    IF text = <<>> THEN <<line>>
    ELSE IF Head(text) = "\n" THEN <<line>> \o Split(Tail(text), <<>>)
    ELSE Split(Tail(text), Append(line, Head(text)))

\* soxRegexp.FindStringSubmatch(line) # nil: the line is the text, a quote,
\* any characters (quotes too) and a quote that ends the line.
SoxMatches(line) ==
    /\ Len(line) >= 3
    /\ line[1] = "F"
    /\ line[2] = "Q"
    /\ line[Len(line)] = "Q"

\* m[1]: what stands between the first quote and the last one.
SoxName(line) == SubSeq(line, 3, Len(line) - 1)

\* Variant of SoxSeen: no name counts as seen.
SoxSeenNever(seen, id) == FALSE

\* _, ok := seen[id].
SoxSeen(seen, id) == id \in seen

\* The loop of parseSoxDevices over the lines.
RECURSIVE SoxLoop(_, _, _)
SoxLoop(lines, seen, r) ==
    IF lines = <<>> THEN r
    ELSE LET line == Head(lines)
         IN  IF ~SoxMatches(line) THEN SoxLoop(Tail(lines), seen, r)
             ELSE IF SoxSeen(seen, SoxName(line))
             THEN SoxLoop(Tail(lines), seen, r)
             ELSE SoxLoop(Tail(lines), seen \cup {SoxName(line)},
                          Append(r, [ID |-> SoxName(line), Name |-> SoxName(line)]))

parseSoxDevices(text) == SoxLoop(Split(text, <<>>), {}, <<>>)

\* The call of parseSoxDevices on the output of sox.
ParseSox ==
    /\ soxPc = "call"
    /\ soxDevices' = parseSoxDevices(soxText)
    /\ soxPc' = "done"
    /\ UNCHANGED soxText
    /\ UNCHANGED <<runnerVars, pipeVars, mafVars>>

SoxInit ==
    /\ RunnerIdle
    /\ PipeIdle
    /\ MafIdle
    /\ soxText \in SoxTexts
    /\ soxDevices = <<>>
    /\ soxPc = "call"

SoxNext == ParseSox

SoxSpec == SoxInit /\ [][SoxNext]_vars

\* ------------------------------------------- audio classifier, scheduling

\* The steps of the audio pipeline alone.
AudioNext ==
    \/ Hello
    \/ AudioNewClassifier
    \/ CaptureRead
    \/ CaptureHandOff
    \/ CaptureReadFail
    \/ CaptureErrSend
    \/ WorkerWait
    \/ WorkerReturn
    \/ WorkerClassify
    \/ WorkerEmit
    \/ ConsumerReceive

\* A goroutine that can run does run: a send that has room is made, a receive
\* from a closed channel returns, and runner.Classify returns (its read has a
\* deadline, runner.go:332); the consumer keeps receiving from Events.
AudioFairness ==
    /\ WF_vars(CaptureErrSend)
    /\ WF_vars(WorkerWait)
    /\ WF_vars(WorkerReturn)
    /\ WF_vars(WorkerClassify)
    /\ WF_vars(WorkerEmit)
    /\ WF_vars(ConsumerReceive)

AudioLiveSpec == PipelineInit /\ [][AudioNext]_vars /\ AudioFairness

\* ------------------------------------------------------------------ claims

TxStates == {"send", "tracereq", "decode", "traceresp", "drain", "ret"}

\* A logged transaction whose JSON answer was decoded.
Decoded(e) == e.kind \in {"ok", "model"}

\* C1: however many callers have invoked Classify, at most one transaction
\* (write, read, drain) is in progress on the transport, and it is the one of
\* the caller that holds the mutex.
C1_OneTransaction ==
    /\ \A a, b \in Threads : pc[a] \in TxStates /\ pc[b] \in TxStates => a = b
    /\ \A c \in Callers : pc[c] \in TxStates => mutex = c

\* C1, its case: one caller is reading its answer while the other has called
\* Classify and waits for the mutex.
C1_Witness ==
    /\ pc["c1"] = "decode"
    /\ pc["c2"] = "lock"
    /\ c2s = <<tx["c1"].id>>

\* C2: the response a call returns is the model's answer to the request that
\* this call sent, whatever the outcome of the earlier calls.
C2_AnswerToOwnRequest ==
    \A n \in 1..Len(log) : Decoded(log[n]) => log[n].re = log[n].id

\* The model process is alive and has written every byte of every answer it
\* has prepared, the zero byte that ends each answer included.
AnswersWritten == proc = "running" /\ srvOut = <<>>

\* C3: after every transaction whose answer was decoded, what the transaction
\* took off the transport is that JSON document and exactly one zero byte,
\* the one the model process wrote after the document.
C3_OneSentinelConsumed ==
    AnswersWritten =>
        \A n \in 1..Len(log) :
            Decoded(log[n]) =>
                /\ Len(log[n].rd) = 3
                /\ log[n].rd[3] = Sym("z", log[n].rd[1].re)

\* C4: when the model answers the request of a Classify call (an id above
\* that of the hello) with success=false and error E, the call returns an error carrying E, the zero byte of that answer has been
\* consumed, and the next call that reads anything reads its own answer.
C4_ModelErrorKeepsReady ==
    AnswersWritten =>
        \A n \in 1..Len(log) :
            (log[n].id > 1 /\ log[n].kind = "model" /\ log[n].re = log[n].id) =>
                /\ log[n].error = log[n].rd[1].error
                /\ log[n].error \in ErrorStrings
                /\ Len(log[n].rd) = 3
                /\ log[n].rd[3] = Sym("z", log[n].id)
                /\ (n < Len(log) /\ log[n+1].rd # <<>>) =>
                       log[n+1].rd[1].re = log[n+1].id

\* C5: after a call failed with a protocol error or a timeout, a later call
\* that returns what it read, and whose request the model answers with a
\* well-formed success response, returns that response.
C5_LaterCallUnaffected ==
    \A m, n \in 1..Len(log) :
        (/\ m < n
         /\ log[m].kind \in {"protocol", "timeout"}
         /\ log[n].kind \notin {"timeout", "io"}
         /\ answered[log[n].id] = "ok")
        => (log[n].kind = "ok" /\ log[n].re = log[n].id)

\* C6, as claimed: once a transaction has failed with a transport error, a
\* later Classify call does not write to or read from the transport.
C6_NoIOAfterTransportError ==
    \A m, n \in 1..Len(log) :
        (m < n /\ log[m].kind = "io") => (~log[n].wrote /\ log[n].rd = <<>>)

\* C6, amended: once a transaction has failed with a transport error, every
\* later Classify call calls conn.Write again and returns the error of that
\* write; it reads nothing and returns no result.
C6_RetriesWriteAfterTransportError ==
    \A m, n \in 1..Len(log) :
        (m < n /\ log[m].kind = "io") =>
            /\ log[n].wrote
            /\ log[n].kind = "io"
            /\ log[n].error \in {"closed", "EPIPE"}
            /\ log[n].rd = <<>>

\* C6, its case: a call failed with a transport error while the connection
\* was open on the runner's side, and a later call has returned.
C6_Witness ==
    /\ Len(log) = 3
    /\ log[2].kind = "io"
    /\ log[2].error = "EOF"
    /\ log[3].wrote
    /\ conn = "open"

\* C7, as claimed: every call of Close returns nil without a panic, in every
\* state of the instance; after the first call the process is cancelled, the
\* connection closed and the private temp dir removed, and a call after the
\* first changes nothing.
C7_CloseIdempotent ==
    /\ [](closeRet # "panic")
    /\ [](closes >= 1 => /\ proc # "running"
                         /\ conn # "open"
                         /\ (tempDir # "" => tempDir \notin dirs))
    /\ [][(closes >= 1 /\ closes' = closes + 1) =>
             (closeRet' = "nil" /\ UNCHANGED <<proc, conn, dirs, cancel, tempDir>>)]_vars

\* C8, as claimed: a Close called while a Classify call waits for the answer
\* does not wait for that call: it can take its next step.
C8_CloseDoesNotWait ==
    (closePc = "called" /\ \E c \in Callers : pc[c] = "decode")
        => ENABLED CloseLock

\* C8, amended: Close runs only when no Classify transaction is in progress
\* (it waits for the mutex the Classify call holds), so the connection is
\* never closed under a pending read of a transaction.
C8_CloseWaitsForClassify ==
    /\ closePc = "locked" => \A c \in Callers : pc[c] \notin TxStates
    /\ \A c \in Callers : pc[c] \in {"decode", "drain"} => conn = "open"
    /\ (closePc = "called" /\ \E c \in Callers : pc[c] \in TxStates)
           => ~ENABLED CloseLock

\* C8, its case: Close has been called while a Classify call is blocked in
\* the read of an answer that has not arrived.
C8_Witness ==
    /\ closePc = "called"
    /\ \E c \in Callers : pc[c] = "decode" /\ mutex = c
    /\ s2c = <<>>
    /\ proc = "running"

\* C9, as claimed: NewRunnerProcess returns either a runner whose hello
\* succeeded, or nil with an error after cleanup: the process is not running,
\* no connection is open and the private temp dir is gone.
C9_NeverHalfInitialized ==
    /\ (runner = "none") = (ctor \notin {"ready", "failed"})
    /\ runner = "r" => (rerr = "" /\ ctor = "ready" /\ log[1].kind = "ok")
    /\ runner = "nil" =>
          /\ ctor = "failed"
          /\ rerr # ""
          /\ proc # "running"
          /\ conn # "open"
          /\ (tempDir # "" => tempDir \notin dirs)
          /\ rerr # "abs" => (closes = 1 /\ closeRet = "nil")

\* C10: the dial loop makes at most DialGiveUp + 1 = 1001 calls of net.Dial;
\* a dial that finds no socket file is retried until the budget is spent and
\* then fails construction, any other dial error fails it at once, and the
\* first connection ends the polling.
C10_BoundedPolling ==
    /\ [](ctor = "dial" => i \in 0..DialGiveUp)
    /\ [][(ctor = "dial" /\ (ctor' # "dial" \/ i' # i)) =>
             IF sock = "absent"
             THEN IF i < DialGiveUp
                  THEN ctor' = "dial" /\ i' = i + 1 /\ rerr' = "" /\ conn' = "nil"
                  ELSE ctor' = "deferred" /\ rerr' = "no socket from runner"
                       /\ conn' = "nil"
             ELSE IF proc = "running"
                  THEN ctor' = "hello" /\ conn' = "open" /\ rerr' = ""
                  ELSE ctor' = "deferred" /\ rerr' = "opening runner socket"
                       /\ conn' = "nil"]_vars

\* C10, its case: the budget was spent: the dial with i = DialGiveUp found no
\* socket file and construction failed.
C10_Witness ==
    /\ ctor = "deferred"
    /\ i = DialGiveUp
    /\ rerr = "no socket from runner"

\* C11: transaction ids start at 1 with the hello and every later request,
\* of whichever caller and whatever the outcome of the earlier ones, carries
\* the id of the previous request plus one; no id is used twice.
C11_IdsIncreaseByOne ==
    /\ \A n \in 1..Len(log) : log[n].id = n
    /\ \A t \in Threads : pc[t] \in TxStates => tx[t].id = Len(log) + 1
    /\ lastID = Len(log) + Cardinality({t \in Threads : pc[t] \in TxStates})
    /\ \A m, n \in 1..Len(c2s) : m < n => c2s[m] < c2s[n]

\* C11, its case: the hello and a failed Classify call have returned and a
\* third request, with id 3, is on the wire.
C11_Witness ==
    /\ Len(log) = 2
    /\ log[2].kind # "ok"
    /\ \E c \in Callers : pc[c] = "decode" /\ tx[c].id = 3 /\ c2s # <<>>
                          /\ c2s[Len(c2s)] = 3

\* C12: once the hello response has been processed, SensorType is decided by
\* the numeric sensor code alone (1 microphone, 2 accelerometer, 3 camera,
\* anything else unknown, whatever else the response held), and ModelType is
\* classification for an absent or empty model_type and the given one
\* otherwise.
C12_SensorTypeFromCode ==
    modelParams # NoParams =>
        /\ helloResp.sensor = 1 => modelParams.SensorType = "microphone"
        /\ helloResp.sensor = 2 => modelParams.SensorType = "accelerometer"
        /\ helloResp.sensor = 3 => modelParams.SensorType = "camera"
        /\ helloResp.sensor \notin {1, 2, 3} =>
               modelParams.SensorType = "unknown"
        /\ helloResp.model_type = "" => modelParams.ModelType = "classification"
        /\ helloResp.model_type # "" =>
               modelParams.ModelType = helloResp.model_type

\* C12, its case: a response with an unlisted sensor code, a sensor type of
\* its own and no model_type has been processed.
C12_Witness ==
    /\ modelParams # NoParams
    /\ helloResp.sensor = MaxSensor
    /\ helloResp.SensorType = "camera"
    /\ helloResp.model_type = ""
    /\ modelParams.SensorType = "unknown"

\* C13: an audio classifier constructed on a runner whose sensor is not a
\* microphone, and an image classifier constructed on one whose sensor is not
\* a camera, is refused with an error, and nothing has been done by then: the
\* recorder was not asked for its stream or its events, no goroutine was
\* started, nothing was read and nothing was classified.
C13_MismatchFailsFirst ==
    /\ audioNew # "none" /\ modelParams.SensorType # "microphone" =>
           /\ audioNew = "error"
           /\ ~reader
           /\ capture = "none" /\ worker = "none"
           /\ audioPos = 0 /\ sent = <<>> /\ events = <<>>
    /\ imageNew # "none" /\ modelParams.SensorType # "camera" =>
           /\ imageNew = "error"
           /\ ~imageEvents
           /\ ~imageLoop

\* C13, its case: both constructors were called on the runner of an
\* accelerometer model.
C13_Witness ==
    /\ modelParams.SensorType = "accelerometer"
    /\ audioNew = "error"
    /\ imageNew = "error"

\* Number of samples read from the recorder's stream so far.
SamplesRead == audioPos \div 2

\* C14: once the intervals read add up to at least InputFeaturesCount
\* samples, the window is full and holds the last InputFeaturesCount samples
\* of the stream, oldest first, whatever the interval and window lengths.
C14_WindowIsStreamTail ==
    audioNew = "ok" /\ SamplesRead >= Len(modelSamples) =>
        /\ modelSampleCount = Len(modelSamples)
        /\ \A j \in 1..Len(modelSamples) :
               modelSamples[j] =
                   SourceSample(SamplesRead - Len(modelSamples) + j - 1)

\* C14, its case: intervals of 2 samples into a window of 3, after the
\* second read (which had to shift the window by one sample).
C14_Witness ==
    /\ intervalSampleCount = 2
    /\ SamplesRead = 4
    /\ modelSamples = <<0 - 2, 302, 0 - 4>>

\* C14, a second case: an interval of 4 samples, longer than the window of 3,
\* after the second read.
C14_WitnessLongInterval ==
    /\ intervalSampleCount = 4
    /\ SamplesRead = 8
    /\ modelSamples = <<0 - 6, 306, 0 - 8>>

\* The classify goroutine holds a snapshot it has not finished with.
WorkerBusy == worker \in {"classify", "emit"}

\* C15: the hand-off never waits (the select can always be left at once); a
\* snapshot made while the worker is not waiting in its receive is dropped,
\* the worker and the snapshot it holds staying as they are; a snapshot is
\* given to the worker only when it holds none, so none is ever queued.
C15_HandOffNeverQueues ==
    /\ [](capture = "handoff" => ENABLED CaptureHandOff)
    /\ [][capture = "handoff" /\ capture' # "handoff" /\ worker # "recv" =>
              /\ dropped' = dropped + 1
              /\ worker' = worker
              /\ s' = s]_vars
    /\ [][WorkerBusy /\ WorkerBusy' => s'.samples = s.samples]_vars
    /\ [][s'.samples # s.samples /\ s'.samples # <<>> =>
              worker = "recv" /\ s.samples = <<>>]_vars

\* C15, its case: a snapshot was dropped while the worker is classifying an
\* older one, which it still holds.
C15_Witness ==
    /\ dropped = 1
    /\ worker = "classify"
    /\ capture = "read"
    /\ s.samples # modelSamples
    /\ Len(s.samples) = Len(modelSamples)

\* The recorder's stream has another full interval to deliver.
SourceHasInterval == audioPos < 2 * intervalSampleCount * MaxReads

\* C16: whatever the classify goroutine and the consumer of Events are doing,
\* the capture loop can take its next step (read the next interval the
\* source has, or leave the select), so it never waits for them and the
\* pipeline cannot come to a standstill; a window completed while the worker
\* is busy is dropped, with no event sent for it and the worker's snapshot
\* kept.
C16_CaptureNeverWaits ==
    /\ [](capture = "read" /\ SourceHasInterval => ENABLED CaptureRead)
    /\ [](capture = "handoff" => ENABLED CaptureHandOff)
    /\ [][WorkerBusy /\ capture = "handoff" /\ capture' = "read" =>
              /\ dropped' = dropped + 1
              /\ sent' = sent /\ events' = events
              /\ worker' = worker /\ s' = s]_vars
    /\ [][WorkerBusy /\ audioPos' # audioPos =>
              /\ audioPos' = audioPos + 2 * intervalSampleCount
              /\ worker' = worker /\ s' = s]_vars

\* C16, its case: the consumer has not taken the first event, the worker
\* waits to send the second and still holds its snapshot, and the capture
\* loop has meanwhile read on and dropped two windows without any error
\* event.
C16_Witness ==
    /\ worker = "emit"
    /\ Len(events) = EventsCap
    /\ sent = <<"ok">>
    /\ dropped = 2
    /\ capture = "read"
    /\ s.samples # modelSamples
    /\ Len(s.samples) = Len(modelSamples)

\* Both goroutines of the audio classifier have returned.
AudioStopped == capture = "done" /\ worker = "done"

\* C17: when the pipeline has ended after a failed read (both goroutines
\* have returned and the consumer has received every event), Events is
\* closed, so the consumer's next receive reports the end of the stream.
C17_EventsClosedAtEnd ==
    AudioStopped /\ events = <<>> => eventsClosed

\* Number of events of one kind sent on Events so far.
Sent(kind) == Cardinality({n \in 1..Len(sent) : sent[n] = kind})

\* C18: after a failed read the capture goroutine reads no more; it sends
\* one ReadError event, never a second, and when it has returned samples is
\* closed (and not before); a worker that then arrives at or waits in its
\* receive can only return, and can do so.
C18_ReadErrorStopsCapture ==
    /\ [](capture = "done" => samplesClosed /\ Sent("read") = 1)
    /\ [](capture # "done" => ~samplesClosed /\ Sent("read") = 0)
    /\ [][(capture \in {"errsend", "done"}) =>
              /\ capture' \in {"errsend", "done"}
              /\ audioPos' = audioPos
              /\ modelSamples' = modelSamples]_vars
    /\ [](samplesClosed /\ worker \in {"top", "recv"} => ENABLED WorkerReturn)
    /\ [][samplesClosed /\ worker \in {"top", "recv"} /\ worker' # worker =>
              worker' = "done"]_vars

\* C18, its case: one window was classified, then a read failed; the
\* ReadError event was sent and the worker has returned from its receive.
C18_Witness ==
    /\ sent = <<"ok", "read">>
    /\ capture = "done"
    /\ worker = "done"
    /\ samplesClosed

\* C19: the ReadError event is the last event of the pipeline: no event is
\* sent on Events after it.
C19_ReadErrorIsLast ==
    \A n \in 1..Len(sent) : sent[n] = "read" => n = Len(sent)

\* C20: a failed Classify does not end the classify goroutine: as long as
\* the capture goroutine has not closed samples, the worker is there to take
\* the windows captured after the failure.
C20_WorkerSurvivesClassifyError ==
    Sent("error") >= 1 /\ ~samplesClosed => worker # "done"

\* The image loop holds an image event it has not sent the ClassifyEvent of.
LoopBusy == loop \in {"classify", "emit"}

\* C21: the image loop works on one image event at a time and sends one
\* ClassifyEvent for each, in the order of arrival: for an error event the
\* same error, without a Classify call; for an image the outcome of its
\* Classify call.  After every event sent, of an error too, the loop is back
\* at its select, and it ends only by a value from c.stop or by the end of
\* the recorder's channel.
C21_OneEventPerImageEvent ==
    /\ [](Len(received) = Len(imgSent) + (IF LoopBusy THEN 1 ELSE 0))
    /\ [](\A n \in 1..Len(imgSent) :
            /\ imgSent[n].id = received[n].id
            /\ received[n].err # "" =>
                   /\ imgSent[n].kind = "error"
                   /\ imgSent[n].err = received[n].err
                   /\ \A m \in 1..Len(classified) :
                          classified[m] # received[n].id
            /\ received[n].err = "" =>
                   /\ \E m \in 1..Len(classified) :
                          classified[m] = received[n].id
                   /\ \/ imgSent[n].kind = "ok" /\ imgSent[n].err = ""
                      \/ imgSent[n].kind = "error" /\ imgSent[n].err = "failed")
    /\ [](\A m, n \in 1..Len(received) :
            m < n => received[m].id < received[n].id)
    /\ [][loop = "emit" /\ loop' # "emit" => loop' = "top"]_vars
    /\ [](loop = "done" => imageCloses >= 1 \/ producer = "closed")

\* C21, its case: an error event, an image whose Classify failed and an image
\* that was classified have been received, and their three events sent.
C21_Witness ==
    /\ Len(imgSent) = 3
    /\ imgSent[1].err = "watching"
    /\ imgSent[2].err = "failed"
    /\ imgSent[3].kind = "ok"
    /\ Len(classified) = 2

\* C22: once Close of the image classifier has returned, the loop receives
\* no image event any more: its next wake-up ends it.
C22_NothingReceivedAfterClose ==
    [][imageCloses >= 1 => received' = received]_vars

\* C23: the sequence numbers of the trace images written start at 2 and are
\* strictly increasing, so no trace image takes the number (and the file
\* name) of an earlier one.
C23_TraceSeqIncreases ==
    /\ \A n \in 1..Len(pngs) : pngs[n] >= 2
    /\ \A m, n \in 1..Len(pngs) : m < n => pngs[m] < pngs[n]


\* The received image in the size of the model.
Normalized ==
    Resized(iev.img, modelParams.ImageInputWidth,
            modelParams.ImageInputHeight)

\* The pixel of an image of that size that feature n is made from, in
\* row-major order: rows from the top, each row from the left.
PixelOf(img, n) ==
    img.pix[(n - 1) % modelParams.ImageInputWidth]
           [(n - 1) \div modelParams.ImageInputWidth]

\* The three equal bytes of a gray level.
GrayFeature(level) == level * 65536 + level * 256 + level

\* The high byte of an 8-bit channel scaled by the pixel's alpha.
Premultiplied(channel, alpha) == ((channel * 257 * alpha) \div 255) \div 256

\* The features of the image being classified are in hand.
FeaturesMade == loop = "classify"

\* C24 as stated: width times height features in row-major order; for a
\* 3-channel model each is (R<<16)|(G<<8)|B of the pixel's 8-bit channels, for
\* a 1-channel model each is the pixel's gray level, a value in 0..255.
C24_FeaturesAsStated ==
    FeaturesMade =>
        /\ Len(data) = modelParams.ImageInputWidth * modelParams.ImageInputHeight
        /\ LET img == Normalized
           IN  \A n \in 1..Len(data) :
               LET p == PixelOf(img, n)
               IN
               /\ (modelParams.ImageChannelCount = 3 /\ img.kind = "NRGBA")
                      => data[n] = p.R * 65536 + p.G * 256
                                   + p.B
               /\ modelParams.ImageChannelCount # 3 => data[n] \in 0..255
               /\ (modelParams.ImageChannelCount # 3 /\ img.kind = "Gray")
                      => data[n] = p

\* C24: the image loop makes width times height features in row-major order.
\* For a 3-channel model the feature of an opaque pixel is (R<<16)|(G<<8)|B
\* of its 8-bit channels, that of a pixel that is not opaque packs the
\* channels scaled by its alpha, and the feature of a gray pixel is its level
\* in each of the three bytes; for a 1-channel model every feature is a gray level in
\* each of the three bytes, (Y<<16)|(Y<<8)|Y, the level of the pixel itself
\* when the image was gray already.
C24_FeaturesPacked ==
    FeaturesMade =>
        /\ Len(data) = modelParams.ImageInputWidth * modelParams.ImageInputHeight
        /\ LET img == Normalized
           IN  \A n \in 1..Len(data) :
               LET p == PixelOf(img, n)
               IN
               /\ (modelParams.ImageChannelCount = 3 /\ img.kind = "NRGBA"
                       /\ p.A = 255)
                      => data[n] = p.R * 65536 + p.G * 256
                                   + p.B
               /\ (modelParams.ImageChannelCount = 3 /\ img.kind = "NRGBA")
                      => data[n] = Premultiplied(p.R, p.A) * 65536
                                   + Premultiplied(p.G, p.A) * 256
                                   + Premultiplied(p.B, p.A)
               /\ img.kind = "Gray" => data[n] = GrayFeature(p)
               /\ modelParams.ImageChannelCount # 3
                      => data[n] = GrayFeature(data[n] % 256)

\* A 3-channel model has the features of a colour image whose rows differ,
\* and whose first pixel has three different channels.
C24_Witness ==
    /\ FeaturesMade
    /\ modelParams.ImageChannelCount = 3
    /\ iev.img.kind = "NRGBA"
    /\ data[1] = 255 * 65536
    /\ data[2] = 1 * 65536 + 2 * 256 + 3
    /\ data[1 + modelParams.ImageInputWidth] # data[2]

\* A 1-channel model has the features of a gray image, above 255.
C24_WitnessGray ==
    /\ FeaturesMade
    /\ modelParams.ImageChannelCount # 3
    /\ iev.img.kind = "Gray"
    /\ data[2] = GrayFeature(7)


\* The activity that sends an event of the audio classifier: the capture
\* goroutine sends the read error (part_002:98), the worker goroutine sends
\* classifications and classify errors (part_002:82, 85).
AudioSender(kind) == IF kind = "read" THEN "capture" ELSE "worker"

\* The activities that have sent on the audio classifier's Events.
AudioSenders == {AudioSender(sent[n]) : n \in 1..Len(sent)}

\* The activities that have sent on the image classifier's Events: every
\* event is sent by the loop goroutine (image/classifier.go:90, 163, 166).
ImageSenders == {"loop" : n \in 1..Len(imgSent)}

\* C25: Events of each pipeline holds at most one undelivered event, and all
\* the events of one pipeline were sent by one and the same activity.
C25_SingleProducerCapacityOne ==
    /\ Len(events) <= 1
    /\ Len(imgEvents) <= 1
    /\ Cardinality(AudioSenders) <= 1
    /\ Cardinality(ImageSenders) <= 1


\* C26, as claimed: the working directory is removed exactly when the
\* constructor made it as a private temp dir.  A directory the caller
\* supplied exists in every state, whatever Close and the cleanup of a failed
\* construction do; a private temp dir exists until the first of them has
\* run and never after; and only they remove a directory, which is then the
\* private temp dir.
C26_RemovesOnlyPrivateWorkDir ==
    /\ [](workDir = "caller" => (tempDir = "" /\ "caller" \in dirs))
    /\ [](tempDir # "" => (workDir = tempDir /\ (tempDir \in dirs) = (closes = 0)))
    /\ [][dirs' # dirs /\ dirs' \subseteq dirs =>
             (closes' = closes + 1 /\ dirs \ dirs' = {tempDir})]_vars


\* What transact returns for the bytes it has read from the connection: the
\* outcome of the decoded answer once the decoder has a whole document, the
\* decoder's error on a byte that cannot be part of one, and else the error
\* of the write or of the read that failed.
TransactResults(rd) ==
    LET r == Scan("begin", NoTx.val, rd)
    IN  IF r.st = "done" THEN {Outcome(r.val)}
        ELSE IF r.st = "error"
        THEN {[kind |-> "protocol", error |-> "invalid character"]}
        ELSE {[kind |-> "io", error |-> e] :
                  e \in {"closed", "EPIPE", "EOF", "unexpected EOF", "ECONNRESET"}}
             \cup {[kind |-> "timeout", error |-> "timeout"]}

\* C27: a trace file that cannot be created or written changes nothing of a
\* transaction.  Whatever the trace dir of the runner, none, one in which
\* every trace write fails or one in which it succeeds, every transaction
\* returns what the bytes it read from the connection determine; the id
\* counter counts the transactions; and a trace write leaves the
\* transaction, its result, the counter and the transport as they are.
C27_TraceFailureChangesNothing ==
    /\ [](\A n \in 1..Len(log) :
              [kind |-> log[n].kind, error |-> log[n].error]
                  \in TransactResults(log[n].rd))
    /\ [](lastID = Len(log) + Cardinality({t \in Threads : pc[t] \in TxStates}))
    /\ [][\A t \in Threads :
              (pc[t] \in {"tracereq", "traceresp"} /\ pc'[t] # pc[t]) =>
                  /\ UNCHANGED <<tx, ret, log, lastID, conn, c2s, s2c>>
                  /\ pc'[t] \in {"decode", "drain"}]_vars

\* C27, its case: with a trace dir set, a Classify call has returned a
\* classification although no trace file could be created, neither in the
\* hello transaction nor in its own.
C27_Witness ==
    /\ optsTraceDir = "missing"
    /\ traceFiles = {}
    /\ \E c \in Callers : pc[c] = "ret" /\ ret[c].kind = "ok" /\ tx[c].id >= 2

\* C27, a call that failed in the read of the answer, after the trace of its
\* request could not be created.
C27_WitnessError ==
    /\ optsTraceDir = "missing"
    /\ traceFiles = {}
    /\ \E c \in Callers : pc[c] = "ret" /\ ret[c].kind \in {"io", "timeout"}
                          /\ tx[c].wrote /\ tx[c].id >= 2

\* C27, a call that has returned a classification although the trace files
\* of its request and of the answer were created and could not be written.
C27_WitnessEncode ==
    /\ optsTraceDir = "full"
    /\ \E c \in Callers :
          /\ pc[c] = "ret" /\ ret[c].kind = "ok" /\ tx[c].id >= 2
          /\ {<<tx[c].id, "request", "encode">>,
               <<tx[c].id, "response", "encode">>} \subseteq traceFiles

\* C27, the same call on a runner without a trace dir.
C27_WitnessNoTrace ==
    /\ optsTraceDir = ""
    /\ \E c \in Callers : pc[c] = "ret" /\ ret[c].kind = "ok" /\ tx[c].id >= 2


\* C28: a Classify call made on a runner that Close has returned on comes
\* back with an error and without a classification: once Close has run, no
\* call gets past the write of its request, which fails on the closed
\* connection, so every call that returns then returns that transport error.
C28_ClassifyAfterCloseFails ==
    (runner = "r" /\ closes >= 1) =>
        \A c \in Callers :
            /\ pc[c] \notin {"decode", "drain"}
            /\ pc[c] = "ret" =>
                  /\ ret[c].kind = "io"
                  /\ ret[c].error = "closed"
                  /\ tx[c].rd = <<>>

\* C28, its case: a Classify call, made after Close has returned, has called
\* conn.Write and is about to return.
C28_Witness ==
    /\ runner = "r"
    /\ closes >= 1
    /\ closePc = "idle"
    /\ \E c \in Callers : pc[c] = "ret" /\ tx[c].wrote /\ ret[c].kind = "io"


\* C29: once Close of the audio classifier has returned, its goroutines do
\* nothing more: no audio is read from the recorder, no Classify call is
\* made and no event is sent on Events.
C29_CloseStopsAudio ==
    [][audioClosed =>
          /\ audioPos' = audioPos
          /\ ~(worker = "classify" /\ worker' = "emit")
          /\ sent' = sent]_vars


\* C30: the recorder's goroutine never waits for the image pipeline: in no
\* state is it parked in a send, because what it offers the loop is taken at
\* once or discarded; and the pipeline holds at most one event that it has
\* taken and not yet answered on Events.
C30_ProducerNeverBlocks ==
    /\ producer # "errsend"
    /\ Len(received) <= Len(imgSent) + 1


RECURSIVE SumSeq(_)
SumSeq(q) == IF q = <<>> THEN 0 ELSE Head(q) + SumSeq(Tail(q))

\* The last n elements of a sequence.
LastOf(q, n) == SubSeq(q, Len(q) - n + 1, Len(q))

\* The history size of the filter, as given to NewMAF.
MafSize(l) == Len(maf.state[l].values)

\* C31: on a filter made by NewMAF on which no Update has failed, the value
\* Update returns for a label is the sum of the last min(k, size) values
\* given for that label, k being the number of updates with the label,
\* divided by size.
C31_AverageOfLastValues ==
    (mafRet.op = "Update" /\ mafRet.kind = "ok" /\ ~mafFailed) =>
        /\ DOMAIN mafRet.r = DOMAIN mafRet.cls
        /\ \A l \in DOMAIN mafRet.r :
               mafRet.r[l] =
                   Quot(SumSeq(LastOf(mafHist[l], Min(Len(mafHist[l]), MafSize(l)))),
                        MafSize(l))

\* C31, its case: a history of two values; label "a" has come in three
\* updates, so its first value has left the history, label "b" in one only,
\* the last, so it is averaged with a zero.
C31_Witness ==
    /\ mafRet.op = "Update"
    /\ mafRet.kind = "ok"
    /\ ~mafFailed
    /\ mafHist = [l \in {"a", "b"} |-> IF l = "a" THEN <<1, 2, 2>> ELSE <<1>>]
    /\ mafRet.r = [l \in {"a", "b"} |-> IF l = "a" THEN Quot(4, 2) ELSE Quot(1, 2)]


\* The labels the filter was made with.
MafLabels == DOMAIN maf.state

\* C32: invalid use is answered with an error and no result.  NewMAF with
\* size 0 or without labels returns an error and no filter; Update on a
\* filter that NewMAF did not make, with an empty or nil classification, or
\* with a label that was not given to NewMAF, returns an error and a nil map.
C32_InvalidUseRejected ==
    /\ (mafRet.op = "NewMAF" /\ (mafRet.size = 0 \/ mafRet.labels = <<>>))
           => (mafRet.kind = "error" /\ maf.made = "nil")
    /\ (mafRet.op = "Update"
            /\ (\/ maf.made = "zero"
                \/ DOMAIN mafRet.cls = {}
                \/ \E l \in DOMAIN mafRet.cls : l \notin MafLabels))
           => (mafRet.kind = "error" /\ mafRet.r = EmptyMap)
    /\ mafRet.kind = "error" => mafRet.r = EmptyMap

\* C32, its case: Update has returned with an error for a classification
\* with a known label and one that was not given to NewMAF.
C32_Witness ==
    /\ mafRet.op = "Update"
    /\ maf.made = "new"
    /\ DOMAIN mafRet.cls = {"a", "c"}
    /\ mafRet.err = "unknown label"

\* C32, Update with an empty classification on a filter made by NewMAF.
C32_WitnessEmpty ==
    /\ mafRet.op = "Update"
    /\ maf.made = "new"
    /\ DOMAIN mafRet.cls = {}
    /\ mafRet.kind = "error"

\* C32, Update on a filter not made by NewMAF.
C32_WitnessZero ==
    /\ mafRet.op = "Update"
    /\ maf.made = "zero"
    /\ mafRet.err = "invalid MAF"

\* C32, NewMAF with size 0 and with labels.
C32_WitnessSize ==
    /\ mafRet.op = "NewMAF"
    /\ mafRet.size = 0
    /\ mafRet.labels # <<>>
    /\ mafRet.kind = "error"

\* C32, NewMAF with a size and without labels.
C32_WitnessLabels ==
    /\ mafRet.op = "NewMAF"
    /\ mafRet.size > 0
    /\ mafRet.labels = <<>>
    /\ mafRet.kind = "error"

\* C38: an Update that returns an error leaves the filter as it was before
\* the call: the history, sum and index of every label.
C38_UpdateAllOrNothing ==
    [][(mafUpdates' = mafUpdates + 1 /\ mafRet'.kind = "error") => maf' = maf]_vars


\* The lines of the output given to parseSoxDevices.
SoxLines == Split(soxText, <<>>)

\* The lines that announce a device, by their position.
SoxAnnounced == {n \in 1..Len(SoxLines) : SoxMatches(SoxLines[n])}

\* The first line that announces the device with this name.
SoxFirst(name) ==
    CHOOSE n \in SoxAnnounced :
        /\ SoxName(SoxLines[n]) = name
        /\ \A m \in SoxAnnounced : SoxName(SoxLines[m]) = name => n <= m

\* C33: parseSoxDevices returns one device for every name announced on a
\* line of the output and no other, none twice, in the order in which the
\* names are announced first, each with its ID equal to its Name.
C33_OneDevicePerName ==
    soxPc = "done" =>
        /\ {soxDevices[n].Name : n \in 1..Len(soxDevices)}
               = {SoxName(SoxLines[n]) : n \in SoxAnnounced}
        /\ \A m, n \in 1..Len(soxDevices) :
               m < n => SoxFirst(soxDevices[m].Name) < SoxFirst(soxDevices[n].Name)
        /\ \A n \in 1..Len(soxDevices) : soxDevices[n].ID = soxDevices[n].Name

\* C33, its case: a device announced twice, with a line in between that
\* announces nothing, gives one device.
C33_Witness ==
    /\ soxPc = "done"
    /\ soxText = <<"F", "Q", "Q", "\n", "\n", "F", "Q", "Q">>
    /\ Len(soxDevices) = 1

\* C33, two devices, in the order of their lines.
C33_WitnessTwo ==
    /\ soxPc = "done"
    /\ soxText = <<"F", "Q", "a", "Q", "\n", "F", "Q", "Q">>
    /\ soxDevices = <<[ID |-> <<"a">>, Name |-> <<"a">>], [ID |-> <<>>, Name |-> <<>>]>>


\* The transaction id of the Classify call for the image in hand, on a
\* runner that has no other caller: the hello had id 1 and every Classify
\* call, failed or not, takes the next id (runner.go:371-374, 382-386).
ClassifyID == Len(classified) + 1

\* C34: with tracing on, the sequence number under which the image in hand
\* is persisted is the transaction id of the Classify call made for it.
C34_TraceSeqIsTransactionID ==
    (loop = "classify" /\ traceDir # "") => seq = ClassifyID


\* The worker holds a snapshot: it is in Classify or about to send the event.
SnapshotInFlight == worker \in {"classify", "emit"}

\* C35: the snapshot handed to the worker is the window as it is at the
\* hand-off; while the worker holds it no step changes it, whatever the capture
\* loop reads and writes meanwhile; and the event of a successful Classify
\* carries it as Samples.
C35_SnapshotIsPrivate ==
    [][/\ (capture = "handoff" /\ worker = "recv" /\ worker' = "classify")
              => s'.samples = modelSamples
       /\ (SnapshotInFlight /\ worker' \in {"classify", "emit"})
              => s'.samples = s.samples
       /\ (worker = "emit" /\ worker' # "emit" /\ s.err = "")
              => events'[Len(events')].samples = s.samples]_vars

\* C35, its case: the worker holds a snapshot while the capture loop has
\* moved the window on, so the two differ.
C35_Witness ==
    /\ SnapshotInFlight
    /\ Len(s.samples) = Len(modelSamples)
    /\ s.samples # modelSamples
    /\ dropped >= 1


\* frequency * interval rounded to the nearest integer, the interval given in
\* milliseconds.
RoundedSampleCount(frequency, interval) == (frequency * interval + 500) \div 1000

\* C36: the interval sample count of an audio classifier is frequency times
\* interval rounded to the nearest integer, for the interval it was made with.
C36_IntervalSampleCountRounded ==
    audioNew = "ok" =>
        \E interval \in Intervals :
            intervalSampleCount = RoundedSampleCount(modelParams.Frequency, interval)


\* The indices of the window that an iteration of the capture loop writes,
\* from the fill count it starts with (part_002:111-124).
WrittenIndices(count) ==
    LET sampleCount == SampleCount(intervalSampleCount, Len(modelSamples))
        end == count + sampleCount
        n == IF end > Len(modelSamples) THEN end - Len(modelSamples) ELSE 0
    IN  {(count - n) + k : k \in 0..(sampleCount - 1)}

\* C37: the fill count of the window stays between 0 and its length,
\* InputFeaturesCount; every sample an iteration writes goes to an index
\* inside the window; and a snapshot is handed to the worker only when the
\* fill count has reached the length.
C37_WindowBounds ==
    (audioNew = "ok") =>
        /\ Len(modelSamples) = modelParams.InputFeaturesCount
        /\ modelSampleCount \in 0..Len(modelSamples)
        /\ \A j \in WrittenIndices(modelSampleCount) : j \in 0..(Len(modelSamples) - 1)
        /\ capture = "handoff" => modelSampleCount = Len(modelSamples)
        /\ SnapshotInFlight => Len(s.samples) = Len(modelSamples)
        /\ (dropped > 0 \/ Sent("ok") > 0 \/ Sent("error") > 0)
               => modelSampleCount = Len(modelSamples)

\* C37, its case: a window of three samples filled to two by intervals of two
\* samples: the next iteration has to move the window down before it writes.
C37_Witness ==
    /\ capture = "read"
    /\ Len(modelSamples) = 3
    /\ intervalSampleCount = 2
    /\ modelSampleCount = 2
    /\ audioPos = 4

\* C37, a full window, from which a snapshot has gone to the worker.
C37_WitnessFull ==
    /\ SnapshotInFlight
    /\ modelSampleCount = Len(modelSamples)
    /\ intervalSampleCount > Len(modelSamples)


\* The send on c.stop of a call of Close made now completes at once: the loop
\* waits in its select, or the channel has room.
CloseCanReturn == LoopParked \/ stop < StopCap

\* C39: whatever the loop is doing, waiting for an image, inside Classify,
\* sending on Events, or after it has returned, and however many calls of
\* Close have been made before, a call of Close returns without waiting.
C39_CloseNeverBlocks ==
    (imageNew = "ok" /\ loop \in {"select", "classify", "emit", "done"})
        => CloseCanReturn


\* The read of the audio source has failed.
SourceFailed == capture \in {"errsend", "done"}

\* C40: once the read of the source has failed, and with a consumer that
\* keeps receiving, both goroutines return: the capture goroutine when it
\* has sent the read error, which it sends once, and the worker after at most
\* the classification it was in; no snapshot is handed to it any more.
C40_BothTerminateAfterReadError ==
    /\ SourceFailed ~> AudioStopped
    /\ [](capture = "done" => Sent("read") = 1)
    /\ [][SourceFailed => ~(worker = "recv" /\ worker' = "classify")]_vars

\* C40, its case: both goroutines have returned, and the worker's last
\* classification was sent after the read error.
C40_Witness ==
    /\ AudioStopped
    /\ Len(sent) >= 2
    /\ sent[Len(sent)] = "ok"
    /\ sent[Len(sent) - 1] = "read"

====
